---- MODULE Spec2Model ----
(***************************************************************************)
(* The Ralph loop controller of ralph_wrapper.py as a state machine.       *)
(*                                                                         *)
(* Text is modelled character by character: a str is a sequence of         *)
(* one-character strings, so that substring tests, strip(), lower(),       *)
(* splitlines() and the [-200:] fingerprint slice are computed the way     *)
(* the Python code computes them.                                          *)
(***************************************************************************)
EXTENDS Integers, Sequences, FiniteSets, TLC

(***************************************************************************)
(* Bounds of the model.                                                    *)
(***************************************************************************)
\* largest --max-loops value the model runs
MaxBudget == 4
\* smallest --max-loops value the model runs, counted below zero
\* (argparse accepts any int, so 0 and negative budgets are inputs too)
MaxBelow == 1

(***************************************************************************)
(* Program constants (ralph_wrapper.py, Configuration).                    *)
(***************************************************************************)
REPEATED_ACTION_THRESHOLD == 3
RALPH_DONE_MARKER == <<"R", "A", "L", "P", "H", "_", "D", "O", "N", "E">>
\* output.strip()[-200:]
FINGERPRINT_CHARS == 200
\* summary_lines[-30:]
SUMMARY_KEEP == 30
\* remaining_lines[-15:]
REMAINING_KEEP == 15
\* re.sub(...)[:40]
SLUG_CHARS == 40

(***************************************************************************)
(* str helpers.                                                            *)
(***************************************************************************)
UpperLetters ==
    <<"A", "B", "C", "D", "E", "F", "G", "H", "I", "J", "K", "L", "M",
      "N", "O", "P", "Q", "R", "S", "T", "U", "V", "W", "X", "Y", "Z">>
LowerLetters ==
    <<"a", "b", "c", "d", "e", "f", "g", "h", "i", "j", "k", "l", "m",
      "n", "o", "p", "q", "r", "s", "t", "u", "v", "w", "x", "y", "z">>
Digits == {"0", "1", "2", "3", "4", "5", "6", "7", "8", "9"}
Whitespace == {" ", "\n", "\t", "\r"}

IsUpper(c) == \E i \in 1..26 : UpperLetters[i] = c
IsAlnum(c) ==
    \/ \E i \in 1..26 : UpperLetters[i] = c \/ LowerLetters[i] = c
    \/ c \in Digits

\* str.lower(), one character
LowerChar(c) ==
    IF IsUpper(c) THEN LowerLetters[CHOOSE i \in 1..26 : UpperLetters[i] = c]
    ELSE c

\* str.lower()
Lower(s) == [i \in 1..Len(s) |-> LowerChar(s[i])]

\* `sub in s`
Contains(s, sub) ==
    \E i \in 1..(Len(s) - Len(sub) + 1) : SubSeq(s, i, i + Len(sub) - 1) = sub

\* s.endswith(suffix)
EndsWith(s, suffix) ==
    /\ Len(s) >= Len(suffix)
    /\ SubSeq(s, Len(s) - Len(suffix) + 1, Len(s)) = suffix

\* s.strip(chars): drop the leading and trailing characters that are in chars
StripChars(s, chars) ==
    LET keep == {i \in 1..Len(s) : s[i] \notin chars}
    IN  IF keep = {} THEN << >>
        ELSE LET lo == CHOOSE i \in keep : \A j \in keep : i <= j
                 hi == CHOOSE i \in keep : \A j \in keep : i >= j
             IN  SubSeq(s, lo, hi)

\* s.strip()
Strip(s) == StripChars(s, Whitespace)

\* s[-n:]
LastN(s, n) == IF Len(s) <= n THEN s ELSE SubSeq(s, Len(s) - n + 1, Len(s))

\* s[:n]
FirstN(s, n) == IF Len(s) <= n THEN s ELSE SubSeq(s, 1, n)

\* s.splitlines(), for text whose only line boundary is "\n": a trailing
\* newline ends the last line and opens no empty one
SplitLines(s) ==
    LET breaks == {i \in 1..Len(s) : s[i] = "\n"}
        \* position of the k-th line break; 0 before the text, Len(s)+1 after it
        BreakAt(k) ==
            IF k = 0 THEN 0
            ELSE IF k > Cardinality(breaks) THEN Len(s) + 1
            ELSE CHOOSE p \in breaks : Cardinality({q \in breaks : q <= p}) = k
        count == Cardinality(breaks)
                    + (IF Len(s) > 0 /\ s[Len(s)] # "\n" THEN 1 ELSE 0)
    IN  [k \in 1..count |-> SubSeq(s, BreakAt(k - 1) + 1, BreakAt(k) - 1)]

\* "\n".join(lines)
RECURSIVE JoinLines(_)
JoinLines(lines) ==
    IF lines = << >> THEN << >>
    ELSE IF Len(lines) = 1 THEN lines[1]
    ELSE lines[1] \o <<"\n">> \o JoinLines(Tail(lines))

\* n copies of the character c
Repeat(c, n) == [i \in 1..n |-> c]

(***************************************************************************)
(* Helpers of ralph_wrapper.py.                                            *)
(***************************************************************************)

\* re.sub(r"[^a-zA-Z0-9]+", "_", s): every maximal run of characters that are
\* not letters or digits becomes one underscore
RECURSIVE SubNonAlnum(_, _, _)
SubNonAlnum(s, i, inRun) ==
    IF i > Len(s) THEN << >>
    ELSE IF IsAlnum(s[i]) THEN <<s[i]>> \o SubNonAlnum(s, i + 1, FALSE)
    ELSE IF inRun THEN SubNonAlnum(s, i + 1, TRUE)
    ELSE <<"_">> \o SubNonAlnum(s, i + 1, TRUE)

\* extract_task_id: ts is datetime.now().strftime("%Y%m%d_%H%M%S")
extract_task_id(task_description, ts) ==
    LET slug == Lower(StripChars(FirstN(SubNonAlnum(task_description, 1, FALSE),
                                        SLUG_CHARS), {"_"}))
    IN  <<"r", "a", "l", "p", "h", "_">> \o slug \o <<"_">> \o ts

\* A directory as the probes see it: st is "missing" (exists() is False),
\* "denied" (listing it raises PermissionError) or "ok"; names are the file
\* names it lists.
\* mutant: the name must equal task_id instead of containing it
check_done_folder_Equal(task_id, dir) ==
    IF dir.st = "missing" THEN "False"
    ELSE IF dir.st = "denied" THEN "raise"
    ELSE IF \E f \in dir.names : f = task_id THEN "True"
    ELSE "False"

\* check_done_folder; "raise" stands for the exception iterdir() raises
check_done_folder(task_id, dir) ==
    IF dir.st = "missing" THEN "False"
    ELSE IF dir.st = "denied" THEN "raise"
    ELSE IF \E f \in dir.names : Contains(f, task_id) THEN "True"
    ELSE "False"

\* mutant: glob("*") instead of glob("*.md")
check_needs_action_empty_AnyFile(dir) ==
    IF dir.st = "missing" THEN TRUE
    ELSE IF dir.st = "denied" THEN TRUE
    ELSE dir.names = {}

\* mutant: a directory that does not exist is not an empty queue
check_needs_action_empty_MissingNotEmpty(dir) ==
    IF dir.st = "missing" THEN FALSE
    ELSE IF dir.st = "denied" THEN TRUE
    ELSE {f \in dir.names : EndsWith(f, <<".", "m", "d">>)} = {}

\* check_needs_action_empty: glob("*.md") lists the names ending in .md;
\* pathlib's glob swallows the PermissionError of a directory it may not
\* list and yields nothing
check_needs_action_empty(dir) ==
    IF dir.st = "missing" THEN TRUE
    ELSE IF dir.st = "denied" THEN TRUE
    ELSE {f \in dir.names : EndsWith(f, <<".", "m", "d">>)} = {}

\* mutant: len(history) <= REPEATED_ACTION_THRESHOLD
detect_repeated_action_LateStart(history) ==
    IF Len(history) <= REPEATED_ACTION_THRESHOLD THEN FALSE
    ELSE LET tail == SubSeq(history, Len(history) - REPEATED_ACTION_THRESHOLD + 1,
                            Len(history))
         IN  Cardinality({tail[i] : i \in 1..Len(tail)}) = 1

\* mutant: every fingerprint of the run is compared, not the last three
detect_repeated_action_WholeHistory(history) ==
    IF Len(history) < REPEATED_ACTION_THRESHOLD THEN FALSE
    ELSE Cardinality({history[i] : i \in 1..Len(history)}) = 1

\* detect_repeated_action
detect_repeated_action(history) ==
    IF Len(history) < REPEATED_ACTION_THRESHOLD THEN FALSE
    ELSE LET tail == SubSeq(history, Len(history) - REPEATED_ACTION_THRESHOLD + 1,
                            Len(history))
         IN  Cardinality({tail[i] : i \in 1..Len(tail)}) = 1

\* mutant: output[-200:]
action_hash_Unstripped(out) == LastN(out, FINGERPRINT_CHARS)

\* action_hash = output.strip()[-200:]
action_hash(out) == LastN(Strip(out), FINGERPRINT_CHARS)

\* RALPH_DONE_MARKER in output
has_done_marker(out) == Contains(out, RALPH_DONE_MARKER)

\* "pending tasks" in task.lower()
is_batch_task(t) ==
    Contains(Lower(t), <<"p", "e", "n", "d", "i", "n", "g", " ",
                         "t", "a", "s", "k", "s">>)

\* the test of line 169 on one line of the output
is_remaining_indicator(line) ==
    LET lower == Strip(Lower(line))
    IN  \/ Contains(lower, <<"r", "e", "m", "a", "i", "n", "i", "n", "g">>)
        \/ Contains(lower, <<"l", "e", "f", "t", " ", "t", "o", " ", "d", "o">>)
        \/ Contains(lower, <<"s", "t", "i", "l", "l", " ", "n", "e", "e", "d">>)

\* the for loop of parse_summary_and_remaining from line i on: the pair
\* (summary_lines, remaining_lines)
RECURSIVE ScanLines(_, _, _)
ScanLines(lines, i, capture_remaining) ==
    IF i > Len(lines) THEN [summary_lines |-> << >>, remaining_lines |-> << >>]
    ELSE IF is_remaining_indicator(lines[i]) THEN ScanLines(lines, i + 1, TRUE)
    ELSE LET rest == ScanLines(lines, i + 1, capture_remaining)
         IN  IF capture_remaining
             THEN [rest EXCEPT !.remaining_lines = <<lines[i]>> \o @]
             ELSE [rest EXCEPT !.summary_lines = <<lines[i]>> \o @]

\* mutant: the two buckets are joined whole
parse_summary_and_remaining_KeepsAll(out) ==
    LET scan == ScanLines(SplitLines(Strip(out)), 1, FALSE)
    IN  [summary   |-> JoinLines(scan.summary_lines),
         remaining |-> JoinLines(scan.remaining_lines)]

\* parse_summary_and_remaining
parse_summary_and_remaining(out) ==
    LET scan == ScanLines(SplitLines(Strip(out)), 1, FALSE)
    IN  [summary   |-> JoinLines(LastN(scan.summary_lines, SUMMARY_KEEP)),
         remaining |-> IF scan.remaining_lines # << >>
                       THEN JoinLines(LastN(scan.remaining_lines, REMAINING_KEEP))
                       ELSE << >>]

\* build_prompt: the fixed instruction text carries iteration/max_loops, then
\* the task, then one section per non-empty context text
build_prompt(t, iter, budget, summary, rest) ==
    [iteration |-> iter,
     max_loops |-> budget,
     task      |-> t,
     sections  |->
        (IF summary # << >>
         THEN <<[heading |-> "Previous Iteration Summary", body |-> summary]>>
         ELSE << >>)
        \o
        (IF rest # << >>
         THEN <<[heading |-> "Known Remaining Work", body |-> rest]>>
         ELSE << >>)]

(***************************************************************************)
(* Inputs of a run.                                                        *)
(***************************************************************************)

\* "Process all Pending Tasks": matches the batch heuristic after lower()
BatchTask ==
    <<"P", "r", "o", "c", "e", "s", "s", " ", "a", "l", "l", " ",
      "P", "e", "n", "d", "i", "n", "g", " ", "T", "a", "s", "k", "s">>
\* "Fix the bug"
PlainTask == <<"F", "i", "x", " ", "t", "h", "e", " ", "b", "u", "g">>
Tasks == {BatchTask, PlainTask}

\* the budgets argparse's type=int lets through
Budgets == (0 - MaxBelow)..MaxBudget

\* what the file named by --task-file holds when it is there
TaskFileText == PlainTask

\* the command lines argparse accepts: --task with a text, or --task-file
\* with the path of a file that is there or is not
CommandLines ==
    {[task |-> t, task_file |-> "none"] : t \in Tasks}
        \cup {[task |-> << >>, task_file |-> f] : f \in {"found", "missing"}}

\* the clock reading of extract_task_id, and the reading of an earlier run
Now == <<"2", "0", "2", "6", "0", "1", "0", "1", "_", "1", "2", "0", "0", "0", "0">>
Earlier == <<"2", "0", "2", "5", "1", "2", "3", "1", "_", "0", "9", "0", "0", "0", "0">>

\* "did A\nRALPH_CONTINUE"
OutProgressA ==
    <<"d", "i", "d", " ", "A", "\n",
      "R", "A", "L", "P", "H", "_", "C", "O", "N", "T", "I", "N", "U", "E">>
\* "did B\nRemaining:\nfix C\nRALPH_CONTINUE"
OutProgressB ==
    <<"d", "i", "d", " ", "B", "\n",
      "R", "e", "m", "a", "i", "n", "i", "n", "g", ":", "\n",
      "f", "i", "x", " ", "C", "\n",
      "R", "A", "L", "P", "H", "_", "C", "O", "N", "T", "I", "N", "U", "E">>
\* "all done\nRALPH_DONE"
OutDone ==
    <<"a", "l", "l", " ", "d", "o", "n", "e", "\n",
      "R", "A", "L", "P", "H", "_", "D", "O", "N", "E">>
\* "did A\n" followed by a line longer than the fingerprint
OutLongA == <<"d", "i", "d", " ", "A", "\n">> \o Repeat("x", FINGERPRINT_CHARS)
\* "RALPH_DONE\n" followed by the same long line: the marker lies before the
\* last 200 characters
OutLongDone ==
    <<"R", "A", "L", "P", "H", "_", "D", "O", "N", "E", "\n">>
        \o Repeat("x", FINGERPRINT_CHARS)
\* the worker printed nothing (result.stdout or "")
OutEmpty == << >>

\* what the worker may print
WorkerOutputs ==
    {OutProgressA, OutProgressB, OutDone, OutLongA, OutLongDone, OutEmpty}

\* the value invoke_claude returns on subprocess.TimeoutExpired (line 153);
\* its em dash is written "-" here
TimeoutText ==
    <<"(", "t", "i", "m", "e", "o", "u", "t", " ", "-", " ",
      "n", "o", " ", "o", "u", "t", "p", "u", "t", ")">>

\* "did B\n" followed by the long line of OutLongA: another text, the same
\* last 200 characters
OutLongB == <<"d", "i", "d", " ", "B", "\n">> \o Repeat("x", FINGERPRINT_CHARS)
\* OutProgressA between blank lines and spaces
OutPaddedA == <<" ", " ", "\n">> \o OutProgressA \o <<"\n", " ", "\n">>

\* outputs that look alike at their end, or but for the white space around
\* them
LookalikeOutputs == {OutProgressA, OutPaddedA, OutLongA, OutLongB}

\* every text invoke_claude may return
ReturnedTexts == WorkerOutputs \cup LookalikeOutputs \cup {TimeoutText}

\* The text functions tabulated once over the inputs above; an action looks
\* its argument up instead of scanning the text again at every step.
Lookup(table, x) == (CHOOSE p \in table : p[1] = x)[2]
TaskIdTable == {<<t, extract_task_id(t, Now)>> : t \in Tasks}
BatchTable == {<<t, is_batch_task(t)>> : t \in Tasks}
FingerprintTable == {<<o, action_hash(o)>> : o \in ReturnedTexts}
ContextTable == {<<o, parse_summary_and_remaining(o)>> : o \in ReturnedTexts}

\* a directory no probe has read in this iteration
Unread == [st |-> "unread", names |-> {}]

\* the states of Done/ a probe may meet: absent, unlistable, holding the file
\* of an earlier run of the same task, holding this run's file too
DoneDirsFor(t) ==
    LET old  == extract_task_id(t, Earlier) \o <<".", "m", "d">>
        mine == extract_task_id(t, Now) \o <<".", "m", "d">>
    IN  {[st |-> "missing", names |-> {}],
         [st |-> "denied", names |-> {}],
         [st |-> "ok", names |-> {old}],
         [st |-> "ok", names |-> {old, mine}]}
DoneDirTable == {<<t, DoneDirsFor(t)>> : t \in Tasks}
DoneDirs(t) == Lookup(DoneDirTable, t)

\* the states of Needs_Action/ a probe may meet
NeedsActionDirs ==
    LET notes == <<"n", "o", "t", "e", "s", ".", "t", "x", "t">>
        item  == <<"t", "a", "s", "k", "_", "1", ".", "m", "d">>
    IN  {[st |-> "missing", names |-> {}],
         [st |-> "denied", names |-> {}],
         [st |-> "ok", names |-> {}],
         [st |-> "ok", names |-> {notes}],
         [st |-> "ok", names |-> {notes, item}]}

(***************************************************************************)
(* State.                                                                  *)
(***************************************************************************)
VARIABLES
    args,              \* main's parsed arguments: how the task was supplied
    task,              \* ralph_loop's argument task
    max_loops,         \* ralph_loop's argument max_loops
    task_id,           \* local task_id
    prev_summary,      \* local prev_summary
    remaining,         \* local remaining
    action_history,    \* local action_history
    iteration,         \* the loop variable; 0 while it is unbound
    output,            \* local output; meaningful once outputs is non-empty
    prompt,            \* local prompt, the last one built
    pc,                \* the statement ralph_loop is at
    outcome,           \* the branch that ended the loop (its log() line)
    system_log,        \* the entries appended to Logs/System_Log.md
    invocations,       \* number of invoke_claude calls started
    in_flight,         \* worker processes started and not yet reaped
    outputs,           \* the outputs invoke_claude returned, in order
    done_dir,          \* Done/ as check_done_folder meets it in this iteration
    needs_action_dir   \* Needs_Action/ as check_needs_action_empty meets it

\* the state of ralph_wrapper.py
ralph_vars == <<args, task, max_loops, task_id, prev_summary, remaining,
                action_history, iteration, output, prompt, pc, outcome,
                system_log, invocations, in_flight, outputs, done_dir,
                needs_action_dir>>

\* scheduler.py: the scheduler process and the folder it watches
VARIABLES
    needs_action_folder,  \* Needs_Action/ with the entries it holds
    sched_clock,          \* the minute datetime.now() reads
    sched_report          \* what the last scheduled_check wrote to the log

scheduler_vars == <<needs_action_folder, sched_clock, sched_report>>

\* bank_watcher.py: the watcher process and its folders
VARIABLES
    bank_pc,           \* the watcher process: "stopped" or "running"
    bank_drops,        \* Bank_Drops/ with the entries it holds
    processed_files,   \* the module's global set processed_files
    demo_generated,    \* the module's global flag demo_generated
    bank_tasks,        \* names of the task files the watcher wrote
    tasks_made,        \* per CSV name: task files created by this process
    reparsed,          \* CSV names parsed again after their task was created
    present_at_start,  \* CSV names in Bank_Drops when this process started
    checks_done,       \* check_for_new_csvs calls of this process (capped)
    made_last_check,   \* CSV names given a task by the last call
    starts             \* how many times the watcher was started

bank_vars == <<bank_pc, bank_drops, processed_files, demo_generated,
               bank_tasks, tasks_made, reparsed, present_at_start,
               checks_done, made_last_check, starts>>

\* the context functions called on their own
VARIABLES
    worker_text,       \* an output handed to parse_summary_and_remaining
    parse_result,      \* the pair it returned, once it was called
    next_prompt,       \* the prompt build_prompt made of that pair
    context_pc         \* which of the calls comes next

context_vars == <<worker_text, parse_result, next_prompt, context_pc>>

\* what no statement of ralph_wrapper.py touches
other_programs == <<scheduler_vars, bank_vars, context_vars>>

vars == <<ralph_vars, scheduler_vars, bank_vars, context_vars>>

NoPrompt == [iteration |-> 0, max_loops |-> 0, task |-> << >>, sections |-> << >>]

\* a folder nobody has looked at
NoFolder == [st |-> "missing", entries |-> {}]

\* the scheduler is not part of the run
SchedulerNotRunning ==
    /\ needs_action_folder = NoFolder
    /\ sched_clock = 0
    /\ sched_report = "none"

\* the bank watcher is not part of the run
BankNotRunning ==
    /\ bank_pc = "stopped"
    /\ bank_drops = NoFolder
    /\ processed_files = {}
    /\ demo_generated = FALSE
    /\ bank_tasks = {}
    /\ tasks_made = << >>
    /\ reparsed = {}
    /\ present_at_start = {}
    /\ checks_done = 0
    /\ made_last_check = {}
    /\ starts = 0

\* the context functions are called by ralph_loop only
ContextNotCalled ==
    /\ worker_text = << >>
    /\ parse_result = [summary |-> << >>, remaining |-> << >>]
    /\ next_prompt = NoPrompt
    /\ context_pc = "idle"

\* main() has parsed the arguments (line 293)
Init ==
    /\ args \in CommandLines
    /\ task = << >>
    /\ max_loops \in Budgets
    /\ task_id = << >>
    /\ prev_summary = << >>
    /\ remaining = << >>
    /\ action_history = << >>
    /\ iteration = 0
    /\ output = << >>
    /\ prompt = NoPrompt
    /\ pc = "main"
    /\ outcome = "none"
    /\ system_log = << >>
    /\ invocations = 0
    /\ in_flight = 0
    /\ outputs = << >>
    /\ done_dir = Unread
    /\ needs_action_dir = Unread
    /\ SchedulerNotRunning
    /\ BankNotRunning
    /\ ContextNotCalled

\* ralph_wrapper.py is not part of the run
RalphNotRunning ==
    /\ args = [task |-> << >>, task_file |-> "none"]
    /\ task = << >>
    /\ max_loops = 0
    /\ task_id = << >>
    /\ prev_summary = << >>
    /\ remaining = << >>
    /\ action_history = << >>
    /\ iteration = 0
    /\ output = << >>
    /\ prompt = NoPrompt
    /\ pc = "not_run"
    /\ outcome = "none"
    /\ system_log = << >>
    /\ invocations = 0
    /\ in_flight = 0
    /\ outputs = << >>
    /\ done_dir = Unread
    /\ needs_action_dir = Unread

(***************************************************************************)
(* ralph_loop, one action per statement group.                             *)
(***************************************************************************)

\* lines 295-310: main resolves the task text, makes sure the directories
\* are there and calls ralph_loop; a task file that is not there ends the
\* process with sys.exit(1)
Main ==
    /\ pc = "main"
    /\ IF args.task_file = "missing"
       THEN /\ pc' = "no_task_file"
            /\ task' = task
       ELSE /\ task' = (IF args.task_file = "found" THEN TaskFileText
                        ELSE args.task)
            /\ pc' = "start"
    /\ UNCHANGED <<args, max_loops, task_id, prev_summary, remaining,
                   action_history, iteration, output, prompt, outcome,
                   system_log, invocations, in_flight, outputs, done_dir,
                   needs_action_dir, other_programs>>

\* an entry append_system_log writes
LogEntry(kind, iter, status) == [entry |-> kind, iteration |-> iter, status |-> status]

\* lines 191-203: derive the task id, write the start entry, empty context
Start ==
    /\ pc = "start"
    /\ task_id' = Lookup(TaskIdTable, task)
    /\ system_log' = Append(system_log, LogEntry("start", 0, "started"))
    /\ prev_summary' = << >>
    /\ remaining' = << >>
    /\ action_history' = << >>
    /\ pc' = "for"
    /\ UNCHANGED <<args, task, max_loops, iteration, output, prompt, outcome,
                   invocations, in_flight, outputs, done_dir,
                   needs_action_dir, other_programs>>

\* mutant: range(1, max_loops + 2)
LoopHasNext_OneMore == iteration + 1 < max_loops + 2

\* mutant: range(1, max_loops)
LoopHasNext_OneLess == iteration + 1 < max_loops

\* range(1, max_loops + 1) has a value after the current one
LoopHasNext == iteration + 1 < max_loops + 1

\* line 205: the for statement takes the next value or falls to its else
ForNext ==
    /\ pc = "for"
    /\ IF LoopHasNext
       THEN /\ iteration' = iteration + 1
            /\ pc' = "build"
       ELSE /\ iteration' = iteration
            /\ pc' = "else"
    /\ UNCHANGED <<args, task, max_loops, task_id, prev_summary, remaining,
                   action_history, output, prompt, outcome, system_log,
                   invocations, in_flight, outputs, done_dir,
                   needs_action_dir, other_programs>>

\* mutant: the first iteration evaluates the checks without calling the
\* worker
BuildPrompt_ChecksFirst ==
    /\ pc = "build"
    /\ prompt' = build_prompt(task, iteration, max_loops, prev_summary, remaining)
    /\ pc' = (IF iteration = 1 THEN "check1" ELSE "invoke")
    /\ UNCHANGED <<args, task, max_loops, task_id, prev_summary, remaining,
                   action_history, iteration, output, outcome, system_log,
                   invocations, in_flight, outputs, done_dir,
                   needs_action_dir, other_programs>>

\* line 209
BuildPrompt ==
    /\ pc = "build"
    /\ prompt' = build_prompt(task, iteration, max_loops, prev_summary, remaining)
    /\ pc' = "invoke"
    /\ UNCHANGED <<args, task, max_loops, task_id, prev_summary, remaining,
                   action_history, iteration, output, outcome, system_log,
                   invocations, in_flight, outputs, done_dir,
                   needs_action_dir, other_programs>>

\* lines 135-141: subprocess.run has started the worker process and waits
Launch ==
    /\ pc = "invoke"
    /\ invocations' = invocations + 1
    /\ in_flight' = in_flight + 1
    /\ pc' = "wait"
    /\ UNCHANGED <<args, task, max_loops, task_id, prev_summary, remaining,
                   action_history, iteration, output, prompt, outcome,
                   system_log, outputs, done_dir, needs_action_dir,
                   other_programs>>

\* mutant: at the deadline the worker process is left running
Returned_LeavesWorker(text) ==
    /\ pc = "wait"
    /\ in_flight' = (IF text = TimeoutText THEN in_flight ELSE in_flight - 1)
    /\ output' = text
    /\ outputs' = Append(outputs, text)
    /\ pc' = "track"
    /\ UNCHANGED <<args, task, max_loops, task_id, prev_summary, remaining,
                   action_history, iteration, prompt, outcome, system_log,
                   invocations, done_dir, needs_action_dir, other_programs>>

\* invoke_claude came back with text: the worker process has exited, or
\* subprocess.run has killed and reaped it at the deadline
Returned(text) ==
    /\ pc = "wait"
    /\ in_flight' = in_flight - 1
    /\ output' = text
    /\ outputs' = Append(outputs, text)
    /\ pc' = "track"
    /\ UNCHANGED <<args, task, max_loops, task_id, prev_summary, remaining,
                   action_history, iteration, prompt, outcome, system_log,
                   invocations, done_dir, needs_action_dir, other_programs>>

\* lines 135-145: the worker ran and printed
WorkerReturns == \E text \in WorkerOutputs : Returned(text)

\* mutant: the deadline is handled like the missing executable
WorkerTimesOut_Aborts ==
    /\ pc = "wait"
    /\ in_flight' = in_flight - 1
    /\ output' = TimeoutText
    /\ outputs' = Append(outputs, TimeoutText)
    /\ pc' = "fatal"
    /\ UNCHANGED <<args, task, max_loops, task_id, prev_summary, remaining,
                   action_history, iteration, prompt, outcome, system_log,
                   invocations, done_dir, needs_action_dir, other_programs>>

\* lines 150-153: subprocess.TimeoutExpired
WorkerTimesOut == Returned(TimeoutText)

\* mutant: the failed launch is logged and the call is made again
WorkerNotFound_Retries ==
    /\ pc = "invoke"
    /\ invocations' = invocations + 1
    /\ pc' = "invoke"
    /\ UNCHANGED <<args, task, max_loops, task_id, prev_summary, remaining,
                   action_history, iteration, output, prompt, outcome,
                   system_log, in_flight, outputs, done_dir, needs_action_dir,
                   other_programs>>

\* mutant: the abort writes an end-of-run entry before it exits
WorkerNotFound_LogsEnd ==
    /\ pc = "invoke"
    /\ invocations' = invocations + 1
    /\ system_log' = Append(system_log, LogEntry("end", iteration, "failed"))
    /\ pc' = "fatal"
    /\ UNCHANGED <<args, task, max_loops, task_id, prev_summary, remaining,
                   action_history, iteration, output, prompt, outcome,
                   in_flight, outputs, done_dir, needs_action_dir,
                   other_programs>>

\* lines 146-149: no process could be started (FileNotFoundError),
\* sys.exit(1)
WorkerNotFound ==
    /\ pc = "invoke"
    /\ invocations' = invocations + 1
    /\ pc' = "fatal"
    /\ UNCHANGED <<args, task, max_loops, task_id, prev_summary, remaining,
                   action_history, iteration, output, prompt, outcome,
                   system_log, in_flight, outputs, done_dir, needs_action_dir,
                   other_programs>>

\* mutant: the history keeps the window of the last three fingerprints only
Track_KeepsWindow ==
    /\ pc = "track"
    /\ action_history' = LastN(Append(action_history,
                                      Lookup(FingerprintTable, output)),
                               REPEATED_ACTION_THRESHOLD)
    /\ pc' = "check1"
    /\ UNCHANGED <<args, task, max_loops, task_id, prev_summary, remaining,
                   iteration, output, prompt, outcome, system_log,
                   invocations, in_flight, outputs, done_dir,
                   needs_action_dir, other_programs>>

\* lines 213-218: preview, fingerprint appended to the history
Track ==
    /\ pc = "track"
    /\ action_history' = Append(action_history, Lookup(FingerprintTable, output))
    /\ pc' = "check1"
    /\ UNCHANGED <<args, task, max_loops, task_id, prev_summary, remaining,
                   iteration, output, prompt, outcome, system_log,
                   invocations, in_flight, outputs, done_dir,
                   needs_action_dir, other_programs>>

\* mutant: the log() line without the break
Break_FallThrough(reason) ==
    /\ outcome' = reason
    /\ pc' = "parse"

\* a check fired: its log() line, then break
Break(reason) ==
    /\ outcome' = reason
    /\ pc' = "summary"

\* mutant: the marker is looked for in the fingerprint instead of the output
Check1_InFingerprint ==
    /\ pc = "check1"
    /\ done_dir' \in DoneDirs(task)
    /\ needs_action_dir' \in
           (IF Lookup(BatchTable, task) THEN NeedsActionDirs ELSE {Unread})
    /\ IF Contains(action_history[Len(action_history)], RALPH_DONE_MARKER)
       THEN outcome' = "completed_explicit" /\ pc' = "summary"
       ELSE pc' = "check2" /\ outcome' = outcome
    /\ UNCHANGED <<args, task, max_loops, task_id, prev_summary, remaining,
                   action_history, iteration, output, prompt, system_log,
                   invocations, in_flight, outputs, other_programs>>

\* mutant: stuck detection tried before the marker
Check1_StuckFirst ==
    /\ pc = "check1"
    /\ done_dir' \in DoneDirs(task)
    /\ needs_action_dir' \in
           (IF Lookup(BatchTable, task) THEN NeedsActionDirs ELSE {Unread})
    /\ IF detect_repeated_action(action_history)
       THEN outcome' = "stuck" /\ pc' = "summary"
       ELSE IF has_done_marker(output)
       THEN outcome' = "completed_explicit" /\ pc' = "summary"
       ELSE pc' = "check2" /\ outcome' = outcome
    /\ UNCHANGED <<args, task, max_loops, task_id, prev_summary, remaining,
                   action_history, iteration, output, prompt, system_log,
                   invocations, in_flight, outputs, other_programs>>

\* lines 223-225. The completion checks begin: from here on the two
\* directories are in the state the probes of this iteration meet
\* (Needs_Action/ is only ever read for a batch task)
Check1 ==
    /\ pc = "check1"
    /\ done_dir' \in DoneDirs(task)
    /\ needs_action_dir' \in
           (IF Lookup(BatchTable, task) THEN NeedsActionDirs ELSE {Unread})
    /\ IF has_done_marker(output)
       THEN Break("completed_explicit")
       ELSE pc' = "check2" /\ outcome' = outcome
    /\ UNCHANGED <<args, task, max_loops, task_id, prev_summary, remaining,
                   action_history, iteration, output, prompt, system_log,
                   invocations, in_flight, outputs, other_programs>>

\* lines 228-230; an exception of the probe is caught nowhere
Check2 ==
    /\ pc = "check2"
    /\ LET found == check_done_folder(task_id, done_dir)
       IN  IF found = "raise" THEN pc' = "crashed" /\ outcome' = outcome
           ELSE IF found = "True" THEN Break("completed_external")
           ELSE pc' = "check3" /\ outcome' = outcome
    /\ UNCHANGED <<args, task, max_loops, task_id, prev_summary, remaining,
                   action_history, iteration, output, prompt, system_log,
                   invocations, in_flight, outputs, done_dir,
                   needs_action_dir, other_programs>>

\* lines 233-235
Check3 ==
    /\ pc = "check3"
    /\ IF Lookup(BatchTable, task) /\ check_needs_action_empty(needs_action_dir)
       THEN Break("completed_queue_empty")
       ELSE pc' = "check4" /\ outcome' = outcome
    /\ UNCHANGED <<args, task, max_loops, task_id, prev_summary, remaining,
                   action_history, iteration, output, prompt, system_log,
                   invocations, in_flight, outputs, done_dir,
                   needs_action_dir, other_programs>>

\* mutant: the stuck loop is logged and the loop goes on
Check4_LogsOnly ==
    /\ pc = "check4"
    /\ IF detect_repeated_action(action_history)
       THEN system_log' = Append(system_log,
                LogEntry("iteration", iteration, "stuck_loop_detected"))
       ELSE system_log' = system_log
    /\ pc' = "parse"
    /\ UNCHANGED <<args, task, max_loops, task_id, prev_summary, remaining,
                   action_history, iteration, output, prompt, outcome,
                   invocations, in_flight, outputs, done_dir,
                   needs_action_dir, other_programs>>

\* lines 238-245
Check4 ==
    /\ pc = "check4"
    /\ IF detect_repeated_action(action_history)
       THEN /\ system_log' = Append(system_log,
                   LogEntry("iteration", iteration, "stuck_loop_detected"))
            /\ Break("stuck")
            /\ UNCHANGED <<done_dir, needs_action_dir>>
       ELSE /\ system_log' = system_log
            /\ pc' = "parse"
            /\ outcome' = outcome
            /\ done_dir' = Unread
            /\ needs_action_dir' = Unread
    /\ UNCHANGED <<args, task, max_loops, task_id, prev_summary, remaining,
                   action_history, iteration, output, prompt, invocations,
                   in_flight, outputs, other_programs>>

\* mutant: an empty remaining text leaves the old one in place
ParseContext_KeepRemaining ==
    /\ pc = "parse"
    /\ LET parsed == Lookup(ContextTable, output)
       IN  /\ prev_summary' = parsed.summary
           /\ remaining' = (IF parsed.remaining = << >> THEN remaining
                            ELSE parsed.remaining)
    /\ pc' = "sleep"
    /\ UNCHANGED <<args, task, max_loops, task_id, action_history, iteration,
                   output, prompt, outcome, system_log, invocations,
                   in_flight, outputs, done_dir, needs_action_dir,
                   other_programs>>

\* line 248
ParseContext ==
    /\ pc = "parse"
    /\ LET parsed == Lookup(ContextTable, output)
       IN  /\ prev_summary' = parsed.summary
           /\ remaining' = parsed.remaining
    /\ pc' = "sleep"
    /\ UNCHANGED <<args, task, max_loops, task_id, action_history, iteration,
                   output, prompt, outcome, system_log, invocations,
                   in_flight, outputs, done_dir, needs_action_dir,
                   other_programs>>

\* mutant: after the pause the loop body is entered again at the context
\* update, the for statement never reached
Cooldown_NeverAdvances ==
    /\ pc = "sleep"
    /\ pc' = "parse"
    /\ UNCHANGED <<args, task, max_loops, task_id, prev_summary, remaining,
                   action_history, iteration, output, prompt, outcome,
                   system_log, invocations, in_flight, outputs, done_dir,
                   needs_action_dir, other_programs>>

\* line 251: time.sleep(LOOP_COOLDOWN_SECONDS)
Cooldown ==
    /\ pc = "sleep"
    /\ pc' = "for"
    /\ UNCHANGED <<args, task, max_loops, task_id, prev_summary, remaining,
                   action_history, iteration, output, prompt, outcome,
                   system_log, invocations, in_flight, outputs, done_dir,
                   needs_action_dir, other_programs>>

\* lines 253-255: the else of the for loop
LoopElse ==
    /\ pc = "else"
    /\ outcome' = "budget_exhausted"
    /\ pc' = "summary"
    /\ UNCHANGED <<args, task, max_loops, task_id, prev_summary, remaining,
                   action_history, iteration, output, prompt, system_log,
                   invocations, in_flight, outputs, done_dir,
                   needs_action_dir, other_programs>>

\* mutant: RALPH_DONE for every outcome that means the work is complete
end_status_AnyCompletion ==
    IF outcome \in {"completed_explicit", "completed_external",
                    "completed_queue_empty"}
    THEN "RALPH_DONE" ELSE "max_reached"

\* the status expression of line 263
end_status == IF has_done_marker(output) THEN "RALPH_DONE" ELSE "max_reached"

\* mutant: the end entry counts the iterations from zero
Summary_ZeroBased ==
    /\ pc = "summary"
    /\ IF iteration = 0
       THEN /\ pc' = "crashed"
            /\ system_log' = system_log
       ELSE /\ system_log' = Append(system_log,
                                    LogEntry("end", iteration - 1, end_status))
            /\ pc' = "returned"
    /\ UNCHANGED <<args, task, max_loops, task_id, prev_summary, remaining,
                   action_history, iteration, output, prompt, outcome,
                   invocations, in_flight, outputs, done_dir,
                   needs_action_dir, other_programs>>

\* lines 257-264: the end-of-run entry; with no iteration run, `iteration` is
\* unbound and line 258 raises NameError
Summary ==
    /\ pc = "summary"
    /\ IF iteration = 0
       THEN /\ pc' = "crashed"
            /\ system_log' = system_log
       ELSE /\ system_log' = Append(system_log,
                                    LogEntry("end", iteration, end_status))
            /\ pc' = "returned"
    /\ UNCHANGED <<args, task, max_loops, task_id, prev_summary, remaining,
                   action_history, iteration, output, prompt, outcome,
                   invocations, in_flight, outputs, done_dir,
                   needs_action_dir, other_programs>>

\* the process is over: ralph_loop returned, sys.exit(1), an uncaught
\* exception, or Ctrl-C
Stopped ==
    pc \in {"returned", "fatal", "crashed", "interrupted", "no_task_file"}

\* the exit status of the process once it is over: 0 when main returns, 1
\* from sys.exit(1) (lines 149 and 300) and from an uncaught exception, and
\* the status of a process ended by SIGINT after a KeyboardInterrupt
exit_code ==
    CASE pc = "returned" -> 0
      [] pc \in {"fatal", "no_task_file", "crashed"} -> 1
      [] pc = "interrupted" -> 130

\* mutant: the interrupt ends the loop and leaves the worker process behind
Interrupt_LeavesWorker ==
    /\ ~Stopped
    /\ pc' = "interrupted"
    /\ task_id' = << >>
    /\ prev_summary' = << >>
    /\ remaining' = << >>
    /\ action_history' = << >>
    /\ iteration' = 0
    /\ output' = << >>
    /\ prompt' = NoPrompt
    /\ done_dir' = Unread
    /\ needs_action_dir' = Unread
    /\ UNCHANGED <<args, task, max_loops, outcome, system_log, invocations,
                   in_flight, outputs, other_programs>>

\* KeyboardInterrupt, caught nowhere, at any statement: the process dies and
\* its locals with it; the log file and what was done so far remain. Inside
\* subprocess.run the worker process is killed before the exception goes on
Interrupt ==
    /\ ~Stopped
    /\ pc' = "interrupted"
    /\ task_id' = << >>
    /\ prev_summary' = << >>
    /\ remaining' = << >>
    /\ action_history' = << >>
    /\ iteration' = 0
    /\ output' = << >>
    /\ prompt' = NoPrompt
    /\ done_dir' = Unread
    /\ needs_action_dir' = Unread
    /\ in_flight' = 0
    /\ UNCHANGED <<args, task, max_loops, outcome, system_log, invocations,
                   outputs, other_programs>>

\* one statement of the single loop thread
Step ==
    \/ Main
    \/ Start
    \/ ForNext
    \/ BuildPrompt
    \/ Launch
    \/ WorkerReturns
    \/ WorkerTimesOut
    \/ WorkerNotFound
    \/ Track
    \/ Check1
    \/ Check2
    \/ Check3
    \/ Check4
    \/ ParseContext
    \/ Cooldown
    \/ LoopElse
    \/ Summary

Next == Step \/ Interrupt

Spec == Init /\ [][Next]_vars

\* the thread runs its next statement, and every worker call returns or hits
\* its 300 s deadline; no interrupt is owed
FairSpec == Init /\ [][Next]_vars /\ WF_vars(Step)

\* the worker ran and printed one of the lookalike outputs
WorkerReturnsLookalike == \E text \in LookalikeOutputs : Returned(text)

\* ralph_loop with a worker whose outputs look alike
LookalikeStep ==
    \/ Main
    \/ Start
    \/ ForNext
    \/ BuildPrompt
    \/ Launch
    \/ WorkerReturnsLookalike
    \/ WorkerTimesOut
    \/ WorkerNotFound
    \/ Track
    \/ Check1
    \/ Check2
    \/ Check3
    \/ Check4
    \/ ParseContext
    \/ Cooldown
    \/ LoopElse
    \/ Summary

LookalikeNext == LookalikeStep \/ Interrupt

LookalikeSpec == Init /\ [][LookalikeNext]_vars

(***************************************************************************)
(* What the claims speak of. The claims about how a run ends speak of runs *)
(* that no operator interrupt cuts short: Interrupt discards the locals,   *)
(* so an interrupted run has no output, no directory state and no prompt   *)
(* for them to speak of.                                                   *)
(***************************************************************************)

\* the loop has stopped through a break or its else and reached line 257
Ended == pc \in {"summary", "returned"}

\* this iteration's probe of Done/ meets a file whose name contains task_id
DoneFilePresent ==
    /\ done_dir.st = "ok"
    /\ \E f \in done_dir.names : Contains(f, task_id)

\* this iteration's probe of Needs_Action/ lists the directory and meets no
\* *.md file in it
QueueSeenEmpty ==
    /\ needs_action_dir.st = "ok"
    /\ \A f \in needs_action_dir.names : ~EndsWith(f, <<".", "m", "d">>)

\* check 3 of this iteration fires, were it reached
QueueCheckFires ==
    /\ is_batch_task(task)
    /\ needs_action_dir # Unread
    /\ check_needs_action_empty(needs_action_dir)

\* the last three outputs returned are byte-identical
LastThreeOutputsIdentical ==
    /\ Len(outputs) >= 3
    /\ outputs[Len(outputs)] = outputs[Len(outputs) - 1]
    /\ outputs[Len(outputs)] = outputs[Len(outputs) - 2]

\* the last entry of the run log
LastEntry == system_log[Len(system_log)]

\* the last three worker calls ran into their deadline
LastThreeTimedOut ==
    /\ Len(outputs) >= 3
    /\ \A k \in (Len(outputs) - 2)..Len(outputs) : outputs[k] = TimeoutText

\* the worker call of the current iteration ran into its deadline
TimedOutNow ==
    /\ iteration >= 1
    /\ Len(outputs) = iteration
    /\ outputs[iteration] = TimeoutText

(***************************************************************************)
(* C1: for every budget max_loops >= 1, whatever the worker returns and    *)
(* whatever the directories hold, a run makes at most max_loops worker     *)
(* invocations.                                                            *)
(***************************************************************************)
C1_AtMostBudgetInvocations == max_loops >= 1 => invocations <= max_loops

\* a run that used its whole budget of three or more invocations
C1_Witness ==
    /\ pc = "returned"
    /\ max_loops >= 3
    /\ invocations = max_loops
    /\ outcome = "budget_exhausted"

(***************************************************************************)
(* C2: every run eventually stops, given that the loop thread keeps        *)
(* running and every worker call returns or times out (FairSpec); and a    *)
(* run that reaches its end with none of the four checks having fired      *)
(* ends budget-exhausted, after exactly the budgeted number of             *)
(* invocations.                                                            *)
(***************************************************************************)
C2_RunStops ==
    /\ <>Stopped
    /\ [](Ended /\ outcome \notin {"completed_explicit", "completed_external",
                                   "completed_queue_empty", "stuck"}
            => /\ outcome = "budget_exhausted"
               /\ invocations = (IF max_loops > 0 THEN max_loops ELSE 0))

\* a run that no check stopped has returned budget-exhausted
C2_Witness ==
    /\ pc = "returned"
    /\ outcome = "budget_exhausted"
    /\ invocations = max_loops
    /\ max_loops >= 2

(***************************************************************************)
(* C3: when the output of iteration k contains RALPH_DONE, the loop goes   *)
(* from the marker check straight to its end with outcome                  *)
(* completed-explicit, and the run has made exactly k invocations.         *)
(***************************************************************************)
C3_DoneMarkerEndsRun ==
    has_done_marker(output) =>
        /\ pc \in {"track", "check1", "summary", "returned"}
        /\ Len(outputs) = iteration
        /\ Ended => /\ outcome = "completed_explicit"
                    /\ invocations = iteration
        /\ pc = "returned" => LastEntry.iteration = iteration

\* the marker came in the second iteration of a longer budget
C3_Witness ==
    /\ pc = "returned"
    /\ has_done_marker(output)
    /\ iteration = 2
    /\ max_loops > 2
    /\ outcome = "completed_explicit"

(***************************************************************************)
(* C4: when the probe of iteration k meets in Done/ a file whose name      *)
(* contains the task id and the output of iteration k has no done marker,  *)
(* the run ends at iteration k with outcome completed-external and k       *)
(* invocations made.                                                       *)
(***************************************************************************)
C4_DoneFileEndsRun ==
    (DoneFilePresent /\ ~has_done_marker(output)) =>
        /\ pc \in {"check2", "summary", "returned"}
        /\ Len(outputs) = iteration
        /\ Ended => /\ outcome = "completed_external"
                    /\ invocations = iteration
        /\ pc = "returned" => LastEntry.iteration = iteration

\* the file was met in the second iteration of a longer budget
C4_Witness ==
    /\ pc = "returned"
    /\ DoneFilePresent
    /\ ~has_done_marker(output)
    /\ iteration = 2
    /\ max_loops > 2
    /\ outcome = "completed_external"

(***************************************************************************)
(* C5: for a batch task, when iteration k has no done marker, its probe of *)
(* Done/ finds no file of the task, and its probe of Needs_Action/ meets   *)
(* no *.md file, the run ends at iteration k with outcome                  *)
(* completed-queue-empty and the end entry records k iterations, whatever  *)
(* the outputs were.                                                       *)
(***************************************************************************)
C5_QueueEmptyEndsRun ==
    (/\ is_batch_task(task)
     /\ QueueSeenEmpty
     /\ ~has_done_marker(output)
     /\ done_dir.st \in {"ok", "missing"}
     /\ ~DoneFilePresent) =>
        /\ pc \in {"check2", "check3", "summary", "returned"}
        /\ Len(outputs) = iteration
        /\ Ended => /\ outcome = "completed_queue_empty"
                    /\ invocations = iteration
        /\ pc = "returned" => LastEntry.iteration = iteration

\* the spec's example: entries at iterations 1 and 2, none at iteration 3 of
\* a larger budget, the first three outputs identical
C5_Witness ==
    /\ pc = "returned"
    /\ is_batch_task(task)
    /\ QueueSeenEmpty
    /\ iteration = 3
    /\ max_loops > 3
    /\ LastThreeOutputsIdentical
    /\ outcome = "completed_queue_empty"
    /\ LastEntry.iteration = 3

(***************************************************************************)
(* C6 as stated: whenever three consecutive iterations returned            *)
(* byte-identical output, the run's outcome is stuck.                      *)
(***************************************************************************)
C6_Original == (Ended /\ LastThreeOutputsIdentical) => outcome = "stuck"

(***************************************************************************)
(* C6 amended: after three consecutive byte-identical outputs the loop     *)
(* never goes on to another iteration and no invocation follows; the run   *)
(* that reaches its end has outcome stuck when the probe of Done/ found no *)
(* file of the task and the queue-empty check did not fire, and the        *)
(* outcome of whichever of these two checks fired otherwise.               *)
(***************************************************************************)
C6_IdenticalOutputsStopRun ==
    LastThreeOutputsIdentical =>
        /\ pc \in {"track", "check1", "check2", "check3", "check4",
                   "summary", "returned", "crashed", "interrupted"}
        /\ invocations = Len(outputs)
        /\ Ended =>
              outcome = (IF DoneFilePresent THEN "completed_external"
                         ELSE IF QueueCheckFires THEN "completed_queue_empty"
                         ELSE "stuck")

\* three identical outputs, no file, no empty queue: stuck before the budget
\* is used up
C6_Witness ==
    /\ pc = "returned"
    /\ LastThreeOutputsIdentical
    /\ ~DoneFilePresent
    /\ ~QueueCheckFires
    /\ outcome = "stuck"
    /\ iteration < max_loops

(***************************************************************************)
(* C7: the outcome of a run that reached its end is the one of the first   *)
(* condition that holds at its last iteration, in the order done marker,   *)
(* completion file, empty queue of a batch task, three equal fingerprints, *)
(* and budget-exhausted when none holds; so a done marker gives            *)
(* completed-explicit also when the last three fingerprints are equal, the *)
(* completion file is there and the iteration is the last of the budget.   *)
(***************************************************************************)
C7_FirstCheckDecides ==
    Ended =>
        outcome = (IF has_done_marker(output) THEN "completed_explicit"
                   ELSE IF DoneFilePresent THEN "completed_external"
                   ELSE IF QueueCheckFires THEN "completed_queue_empty"
                   ELSE IF detect_repeated_action(action_history) THEN "stuck"
                   ELSE "budget_exhausted")

\* all conditions at once: marker, completion file, three equal fingerprints,
\* last iteration of the budget
C7_Witness ==
    /\ pc = "returned"
    /\ has_done_marker(output)
    /\ DoneFilePresent
    /\ detect_repeated_action(action_history)
    /\ iteration = max_loops
    /\ outcome = "completed_explicit"

(***************************************************************************)
(* C8: once an outcome is assigned, no step of the run invokes the worker: *)
(* the number of invocations and the list of outputs stay as they are.     *)
(***************************************************************************)
C8_NoInvocationAfterOutcome ==
    [][outcome # "none" => /\ invocations' = invocations
                           /\ outputs' = outputs
                           /\ outcome' = outcome]_vars

\* a check ended the run with budget left
C8_Witness ==
    /\ pc = "returned"
    /\ outcome \in {"completed_explicit", "completed_external",
                    "completed_queue_empty", "stuck"}
    /\ invocations < max_loops

(***************************************************************************)
(* C9: the end-of-run entry names the outcome of the run, so that runs     *)
(* that stopped for different reasons are recorded differently. The code   *)
(* writes one of two statuses; they are read here as what they say.        *)
(***************************************************************************)
OutcomeWritten(entry) ==
    IF entry.status = "RALPH_DONE" THEN "completed_explicit"
    ELSE IF entry.status = "max_reached" THEN "budget_exhausted"
    ELSE "none"

C9_SummaryNamesOutcome ==
    pc = "returned" => OutcomeWritten(LastEntry) = outcome

(***************************************************************************)
(* C10: the prompt of iteration k+1 carries exactly the summary and the    *)
(* remaining-work text extracted from the output of iteration k, and so    *)
(* nothing extracted from an earlier output.                               *)
(***************************************************************************)
C10_ContextReplaced ==
    prompt.iteration >= 2 =>
        LET last == Lookup(ContextTable, outputs[prompt.iteration - 1])
        IN  prompt = build_prompt(task, prompt.iteration, max_loops,
                                  last.summary, last.remaining)

\* the third prompt after an output with remaining work and then one without:
\* it has the summary section alone
C10_Witness ==
    /\ pc = "invoke"
    /\ prompt.iteration = 3
    /\ outputs = <<OutProgressB, OutProgressA>>
    /\ Len(prompt.sections) = 1
    /\ prompt.sections[1].heading = "Previous Iteration Summary"

(***************************************************************************)
(* C11: a worker call that runs into its deadline does not abort the run.  *)
(* The iteration counts against the budget like any other (one invocation  *)
(* per iteration, none beyond the budget); its fingerprint is tracked and  *)
(* the checks are gone through; the loop ends only with an outcome, and    *)
(* with budget-exhausted only at the last iteration of the budget; when no *)
(* check fires the context update, the pause and, with budget left, the    *)
(* next iteration follow. The one way such an iteration stops the process  *)
(* without an outcome is the failing probe of Done/ (see C16), which has   *)
(* nothing to do with the deadline.                                        *)
(***************************************************************************)
C11_TimeoutNeverAborts ==
    /\ [](TimedOutNow =>
            /\ pc \in {"track", "check1", "check2", "check3", "check4",
                       "parse", "sleep", "for", "else", "summary",
                       "returned", "crashed"}
            /\ invocations = iteration
            /\ iteration <= max_loops
            /\ pc # "track" => Len(action_history) = iteration
            /\ pc = "crashed" => done_dir.st = "denied"
            /\ Ended => outcome # "none"
            /\ (pc = "else" \/ outcome = "budget_exhausted")
                   => iteration = max_loops)
    /\ [][(TimedOutNow /\ pc' # "interrupted") =>
            /\ (pc = "check4" /\ outcome' = "none") => pc' = "parse"
            /\ pc = "parse" => pc' = "sleep"
            /\ pc = "sleep" => pc' = "for"
            /\ (pc = "for" /\ iteration < max_loops)
                   => (pc' = "build" /\ iteration' = iteration + 1)]_vars

\* the first call timed out and the second call is under way
C11_Witness ==
    /\ pc = "wait"
    /\ iteration = 2
    /\ outputs = <<TimeoutText>>
    /\ in_flight = 1

(***************************************************************************)
(* C12: a timed-out invocation is recorded as an iteration with empty      *)
(* output: its fingerprint is the empty string, the summary and the        *)
(* remaining work extracted from it are empty, and the prompt of the next  *)
(* iteration has neither a previous-summary nor a remaining-work section.  *)
(***************************************************************************)
C12_TimeoutRecordedEmpty ==
    /\ \A k \in 1..Len(action_history) :
           outputs[k] = TimeoutText => action_history[k] = << >>
    /\ (TimedOutNow /\ pc \in {"sleep", "for"}) =>
           (prev_summary = << >> /\ remaining = << >>)
    /\ (prompt.iteration >= 2 /\ outputs[prompt.iteration - 1] = TimeoutText)
           => prompt.sections = << >>

C14_NotFoundAborts ==
    /\ [](pc = "fatal" =>
            /\ outcome = "none"
            /\ in_flight = 0
            /\ iteration = invocations
            /\ Len(outputs) = iteration - 1
            /\ Len(action_history) = iteration - 1
            /\ done_dir = Unread /\ needs_action_dir = Unread
            /\ LET last == IF iteration = 1
                           THEN [summary |-> << >>, remaining |-> << >>]
                           ELSE Lookup(ContextTable, outputs[iteration - 1])
               IN  prev_summary = last.summary /\ remaining = last.remaining)
    /\ [](pc \notin {"fatal", "interrupted"}
            => invocations = Len(outputs) + in_flight)
    /\ [][/\ pc = "fatal" => UNCHANGED vars
          /\ (pc # "fatal" /\ pc' = "fatal") =>
                 /\ pc = "invoke"
                 /\ invocations' = invocations + 1
                 /\ UNCHANGED <<outputs, action_history, prev_summary,
                                remaining, outcome, system_log, in_flight,
                                iteration>>]_vars

\* the executable vanished before the third call, after an output with
\* remaining work and one without
C14_Witness ==
    /\ pc = "fatal"
    /\ iteration = 3
    /\ outputs = <<OutProgressB, OutProgressA>>
    /\ invocations = 3
    /\ max_loops > 3

(***************************************************************************)
(* C15: a run aborted because the worker executable was not found has      *)
(* written the start entry to the run log and nothing else, at whichever   *)
(* iteration the abort happened.                                           *)
(***************************************************************************)
C15_AbortLeavesStartEntryOnly ==
    pc = "fatal" => system_log = <<LogEntry("start", 0, "started")>>

\* the abort came at the last iteration of a budget of three or more
C15_Witness ==
    /\ pc = "fatal"
    /\ iteration = max_loops
    /\ iteration >= 3
    /\ Len(system_log) = 1
    /\ system_log[1].entry = "start"

(***************************************************************************)
(* C16: an exception raised while a probe reads Done/ or Needs_Action/ is  *)
(* taken as "no evidence found" for that check alone: the run is not       *)
(* stopped by it, and a run whose probe of Needs_Action/ failed does not   *)
(* end as completed-queue-empty.                                           *)
(***************************************************************************)
C16_ProbeFailureIsNoEvidence ==
    /\ done_dir.st = "denied" => pc # "crashed"
    /\ (needs_action_dir.st = "denied" /\ Ended)
           => outcome # "completed_queue_empty"

(***************************************************************************)
(* C17: a run that reached a terminal outcome and is over has appended     *)
(* exactly two entries to the run log, the start entry and the end entry,  *)
(* whichever of the five outcomes ended it.                                *)
(***************************************************************************)
C17_TwoLogEntries ==
    (Stopped /\ pc # "interrupted" /\ outcome # "none") =>
        /\ Len(system_log) = 2
        /\ system_log[1].entry = "start"
        /\ system_log[2].entry = "end"

(***************************************************************************)
(* C18: the process exits non-zero if and only if the worker executable    *)
(* was not found; every other run that no interrupt cut short exits zero,  *)
(* whichever outcome it reached and whether the task came as --task or as  *)
(* --task-file.                                                            *)
(***************************************************************************)
C18_ExitCode ==
    (Stopped /\ pc # "interrupted") => (exit_code # 0 <=> pc = "fatal")

(***************************************************************************)
(* C19: at most one worker process is in flight at any time, and only      *)
(* while the loop waits in the call. The call of iteration N+1 is started  *)
(* only when every earlier call has returned or timed out (N outputs for N *)
(* calls, no worker left running), the fingerprint of iteration N is       *)
(* tracked, its checks are over with none fired, and the context holds     *)
(* what was extracted from the output of iteration N.                      *)
(***************************************************************************)
C19_OneInvocationAtATime ==
    /\ [](in_flight \in {0, 1} /\ (in_flight = 1 <=> pc = "wait"))
    /\ [][in_flight' > in_flight =>
            /\ in_flight = 0
            /\ invocations = iteration - 1
            /\ Len(outputs) = iteration - 1
            /\ Len(action_history) = iteration - 1
            /\ outcome = "none"
            /\ done_dir = Unread /\ needs_action_dir = Unread
            /\ iteration >= 2 =>
                  LET last == Lookup(ContextTable, outputs[iteration - 1])
                  IN  /\ prev_summary = last.summary
                      /\ remaining = last.remaining]_vars

\* the third call is in flight after the second one timed out
C19_Witness ==
    /\ pc = "wait"
    /\ in_flight = 1
    /\ iteration = 3
    /\ Len(outputs) = 2
    /\ outputs[2] = TimeoutText
    /\ prev_summary = TimeoutText

(***************************************************************************)
(* C20: an operator interrupt, at whichever statement it arrives (in the   *)
(* worker call, in the evaluation, in the pause), stops the run there: the *)
(* step of the interrupt starts no invocation, returns no output and       *)
(* writes no log entry, a worker in flight is abandoned, and nothing       *)
(* follows the interrupt, so no later iteration begins.                    *)
(***************************************************************************)
C20_NoInvocationAfterInterrupt ==
    /\ [](pc = "interrupted" => in_flight = 0)
    /\ [][/\ pc = "interrupted" => UNCHANGED vars
          /\ (pc # "interrupted" /\ pc' = "interrupted") =>
                 /\ invocations' = invocations
                 /\ outputs' = outputs
                 /\ system_log' = system_log
                 /\ outcome' = outcome]_vars

\* the interrupt arrived during the second worker call, with budget left:
\* that call never returned and no third one was made
C20_Witness ==
    /\ pc = "interrupted"
    /\ invocations = 2
    /\ Len(outputs) = 1
    /\ in_flight = 0
    /\ max_loops > 2

(***************************************************************************)
(* C21: the iteration index starts at 1 and grows by exactly 1 per cycle   *)
(* (the loop variable changes only at the for statement, by one, and each  *)
(* worker call is the one of the current index), and the iteration count   *)
(* in the end-of-run entry is the number of worker invocations of the run, *)
(* whichever outcome ended it.                                             *)
(***************************************************************************)
C21_IterationCount ==
    /\ [](pc = "returned" =>
            /\ LastEntry.entry = "end"
            /\ LastEntry.iteration = invocations
            /\ LastEntry.iteration = Len(outputs)
            /\ LastEntry.iteration >= 1)
    /\ [](pc \in {"build", "invoke"} => invocations = iteration - 1)
    /\ [][pc' # "interrupted" =>
            /\ iteration' # iteration =>
                  (pc = "for" /\ pc' = "build" /\ iteration' = iteration + 1)
            /\ invocations' # invocations =>
                  (invocations' = iteration /\ iteration' = iteration)]_vars

\* a stuck run of four iterations, recorded as four
C21_Witness ==
    /\ pc = "returned"
    /\ outcome = "stuck"
    /\ invocations = 4
    /\ LastEntry.iteration = 4

(***************************************************************************)
(* C25: the context update and the cooldown are reached only with no       *)
(* outcome and only when another cycle follows: never in the iteration of  *)
(* the last invocation the budget allows.                                  *)
(***************************************************************************)
C25_NoContextUpdateAfterLast ==
    pc \in {"parse", "sleep"} => (outcome = "none" /\ iteration < max_loops)

\* the fingerprint of the output of iteration i
FingerprintOf(i) == Lookup(FingerprintTable, outputs[i])

(***************************************************************************)
(* C26: the fingerprint history is empty until the first output is         *)
(* recorded, has n entries once the output of the n-th invocation is       *)
(* recorded, entry i is the fingerprint of the output of iteration i, and  *)
(* a step of the run either leaves the history alone or appends one entry. *)
(***************************************************************************)
C26_HistoryAppendOnly ==
    /\ [](pc \in {"main", "start"} => action_history = << >>)
    /\ [](pc # "interrupted" =>
            /\ Len(action_history) =
                  (IF pc = "track" THEN Len(outputs) - 1 ELSE Len(outputs))
            /\ pc \notin {"wait", "track", "fatal"} =>
                  Len(action_history) = invocations
            /\ \A i \in DOMAIN action_history :
                  action_history[i] = FingerprintOf(i))
    /\ [][pc' # "interrupted" =>
            \/ action_history' = action_history
            \/ /\ Len(action_history') = Len(action_history) + 1
               /\ SubSeq(action_history', 1, Len(action_history)) =
                     action_history]_vars

\* four outputs recorded, not all alike
C26_Witness ==
    /\ pc = "returned"
    /\ Len(action_history) = 4
    /\ action_history[1] # action_history[2]
    /\ action_history[3] # action_history[4]

\* the outputs of iterations k-2, k-1 and k have one fingerprint
WindowEqual(k) ==
    /\ k >= REPEATED_ACTION_THRESHOLD
    /\ Len(outputs) >= k
    /\ FingerprintOf(k - 2) = FingerprintOf(k)
    /\ FingerprintOf(k - 1) = FingerprintOf(k)

(***************************************************************************)
(* C29: when check 4 is reached at iteration k (no check before it fired), *)
(* the run ends stuck exactly if k >= 3 and the outputs of iterations k-2, *)
(* k-1 and k have the same fingerprint; a run that is stuck is at an       *)
(* iteration >= 3, and what came before the window does not matter.        *)
(***************************************************************************)
C29_StuckWindow ==
    /\ [](outcome = "stuck" /\ pc # "interrupted" =>
            iteration >= 3 /\ WindowEqual(iteration))
    /\ [](pc \in {"parse", "sleep"} => ~WindowEqual(iteration))
    /\ [][(pc = "check4" /\ pc' # "interrupted") =>
            (outcome' = "stuck" <=> WindowEqual(iteration))]_vars

\* stuck at iteration 4, the first output unlike the three after it
C29_Witness ==
    /\ pc = "returned"
    /\ outcome = "stuck"
    /\ iteration = 4
    /\ FingerprintOf(1) # FingerprintOf(2)

(***************************************************************************)
(* C30: a run that returns budget_exhausted got there from the else of the *)
(* loop, after exactly max_loops invocations none of which met a firing    *)
(* check; a check whose condition holds when it is evaluated, at iteration *)
(* max_loops as at any other, gives its own outcome; a returned run that   *)
(* is not budget_exhausted has the outcome of a check.                     *)
(***************************************************************************)
C30_BudgetExhausted ==
    /\ [](pc = "returned" /\ outcome = "budget_exhausted" =>
            /\ invocations = max_loops
            /\ Len(outputs) = max_loops
            /\ \A i \in 1..Len(outputs) :
                  ~has_done_marker(outputs[i]) /\ ~WindowEqual(i))
    /\ [](pc = "returned" /\ outcome # "budget_exhausted" =>
            outcome \in {"completed_explicit", "completed_external",
                         "completed_queue_empty", "stuck"})
    /\ [][pc' # "interrupted" =>
            /\ (pc = "check1" /\ has_done_marker(output)) =>
                  outcome' = "completed_explicit"
            /\ (pc = "check2" /\ DoneFilePresent) =>
                  outcome' = "completed_external"
            /\ (pc = "check3" /\ QueueCheckFires) =>
                  outcome' = "completed_queue_empty"
            /\ (pc = "check4" /\ WindowEqual(iteration)) => outcome' = "stuck"
            /\ pc' = "parse" =>
                  /\ ~has_done_marker(output)
                  /\ ~DoneFilePresent
                  /\ ~QueueCheckFires
                  /\ ~WindowEqual(iteration)
            /\ (outcome' = "budget_exhausted" /\ outcome # "budget_exhausted") =>
                  /\ pc = "else"
                  /\ iteration >= 1 => iteration = max_loops]_vars

\* the marker in the output of the last iteration the budget allows
C30_Witness ==
    /\ pc = "returned"
    /\ max_loops = 3
    /\ invocations = 3
    /\ outcome = "completed_explicit"

(***************************************************************************)
(* C32: the end-of-run entry of a run that returns has status RALPH_DONE   *)
(* exactly when the marker check stopped the run, and max_reached for      *)
(* each of the four other outcomes.                                        *)
(***************************************************************************)
C32_EndStatus ==
    pc = "returned" =>
        /\ LastEntry.entry = "end"
        /\ LastEntry.status = "RALPH_DONE" <=> outcome = "completed_explicit"
        /\ outcome \in {"completed_external", "completed_queue_empty",
                        "stuck", "budget_exhausted"}
              => LastEntry.status = "max_reached"

\* a run stopped by the completion file, written as max_reached
C32_Witness ==
    /\ pc = "returned"
    /\ outcome = "completed_external"
    /\ LastEntry.status = "max_reached"
    /\ max_loops = 2

(***************************************************************************)
(* C33: with a budget of at least 1 no check is evaluated before the       *)
(* worker of the same iteration was called and has returned, and no        *)
(* outcome exists before the first call; when the first iteration's probes *)
(* meet the completion file, or the empty queue of a batch task, the run   *)
(* ends there, after exactly one invocation.                               *)
(***************************************************************************)
C33_InvokedBeforeChecks ==
    /\ [](pc \in {"track", "check1", "check2", "check3", "check4"} =>
            /\ iteration >= 1
            /\ invocations = iteration
            /\ Len(outputs) = iteration)
    /\ []((max_loops >= 1 /\ outcome # "none") => invocations >= 1)
    /\ [][(iteration = 1 /\ pc' # "interrupted") =>
            /\ (pc = "check2" /\ DoneFilePresent) =>
                  /\ pc' = "summary"
                  /\ outcome' = "completed_external"
                  /\ invocations' = 1
            /\ (pc = "check3" /\ QueueCheckFires) =>
                  /\ pc' = "summary"
                  /\ outcome' = "completed_queue_empty"
                  /\ invocations' = 1
            /\ pc = "summary" => invocations' = 1]_vars

\* the completion file was there at the first probe of a budget of four
C33_Witness ==
    /\ pc = "returned"
    /\ max_loops = 4
    /\ iteration = 1
    /\ invocations = 1
    /\ outcome = "completed_external"
    /\ LastEntry.iteration = 1

(***************************************************************************)
(* C34: a Done/ that does not exist lets check 2 pass without evidence,    *)
(* and a Needs_Action/ that does not exist is an empty queue: check 3 of a *)
(* batch task that meets it ends the run completed-queue-empty, so the     *)
(* loop of a batch task never goes past check 3 with Needs_Action/         *)
(* missing.                                                                *)
(***************************************************************************)
C34_MissingDirectories ==
    /\ [][pc' # "interrupted" =>
            /\ (pc = "check2" /\ done_dir.st = "missing") =>
                  (pc' = "check3" /\ outcome' = outcome)
            /\ (pc = "check3" /\ is_batch_task(task)
                              /\ needs_action_dir.st = "missing") =>
                  (pc' = "summary" /\ outcome' = "completed_queue_empty")]_vars
    /\ [](pc \in {"check4", "parse", "sleep"} =>
            ~(is_batch_task(task) /\ needs_action_dir.st = "missing"))

\* a batch task started with neither directory there
C34_Witness ==
    /\ pc = "returned"
    /\ iteration = 1
    /\ is_batch_task(task)
    /\ ~has_done_marker(output)
    /\ done_dir.st = "missing"
    /\ needs_action_dir.st = "missing"
    /\ outcome = "completed_queue_empty"

\* the last 200 characters of each text without the white space around it
StrippedTailTable ==
    {<<o, LastN(StripChars(o, {" ", "\t", "\n", "\r"}), 200)>> :
        o \in ReturnedTexts}

\* the outputs of iterations k-2, k-1 and k end alike once stripped
TailsEqual(k) ==
    /\ k >= 3
    /\ Len(outputs) >= k
    /\ Lookup(StrippedTailTable, outputs[k - 2]) =
          Lookup(StrippedTailTable, outputs[k])
    /\ Lookup(StrippedTailTable, outputs[k - 1]) =
          Lookup(StrippedTailTable, outputs[k])

(***************************************************************************)
(* C35: whether check 4 ends the run as stuck depends only on the last 200 *)
(* characters of the stripped outputs of the last three iterations: equal  *)
(* ones end it as stuck, also when the outputs differ before those         *)
(* characters or in the white space around them; the fingerprints recorded *)
(* are those characters.                                                   *)
(***************************************************************************)
C35_StuckByFingerprint ==
    /\ [](\A i \in DOMAIN action_history :
            action_history[i] = Lookup(StrippedTailTable, outputs[i]))
    /\ [][(pc = "check4" /\ pc' # "interrupted") =>
            (outcome' = "stuck" <=> TailsEqual(iteration))]_vars
    /\ [](pc \in {"parse", "sleep"} => ~TailsEqual(iteration))

\* stuck on three outputs no two neighbours of which are the same text: one
\* padded with white space, two long ones that differ at their start
C35_Witness ==
    /\ pc = "returned"
    /\ outcome = "stuck"
    /\ \/ outputs = <<OutProgressA, OutPaddedA, OutProgressA>>
       \/ outputs = <<OutLongA, OutLongB, OutLongA>>

(***************************************************************************)
(* C36: a run with a budget below 1 that is over (not interrupted, its     *)
(* task file found) has returned, with no invocation made and the start    *)
(* entry and the end entry in the run log.                                 *)
(***************************************************************************)
C36_BelowOneReturns ==
    (max_loops < 1 /\ Stopped /\ pc \notin {"interrupted", "no_task_file"}) =>
        /\ pc = "returned"
        /\ invocations = 0
        /\ Len(system_log) = 2
        /\ LastEntry.entry = "end"

(***************************************************************************)
(* scheduler.py: the hourly check that asks for a plan.                    *)
(***************************************************************************)

\* how many minutes the clock of the scheduler may advance
MaxMinutes == 2

\* "task_generate_plan"
PLAN_TASK_PREFIX ==
    <<"t", "a", "s", "k", "_", "g", "e", "n", "e", "r", "a", "t", "e", "_",
      "p", "l", "a", "n">>

\* str.startswith
StartsWith(s, prefix) ==
    /\ Len(s) >= Len(prefix)
    /\ SubSeq(s, 1, Len(prefix)) = prefix

DigitChar == <<"0", "1", "2", "3", "4", "5", "6", "7", "8", "9">>

\* datetime.now().strftime("%Y-%m-%d_%H-%M") at the given minute
date_stamp(minute) ==
    <<"2", "0", "2", "6", "-", "0", "1", "-", "0", "1", "_", "0", "9", "-">>
        \o <<DigitChar[(minute \div 10) + 1], DigitChar[(minute % 10) + 1]>>

\* task_filename of create_plan_task
plan_task_filename(minute) ==
    PLAN_TASK_PREFIX \o <<"_">> \o date_stamp(minute) \o <<".", "m", "d">>

\* what bank_watcher.py puts into Needs_Action/: the tasks of "q_1.csv" and
\* of "audit.csv"
BankTaskEntries ==
    {[name |-> <<"t", "a", "s", "k", "_", "b", "a", "n", "k", "_", "q", "_",
                "1", ".", "m", "d">>,
      kind |-> "file"],
     [name |-> <<"t", "a", "s", "k", "_", "b", "a", "n", "k", "_", "a", "u",
                "d", "i", "t", ".", "m", "d">>,
      kind |-> "file"]}

\* what other parties put into Needs_Action/: a task, a file that is no
\* task, a directory whose name ends in .md, a hand-made plan request
\* "Task_Generate_Plan_manual.md", and the tasks of the bank watcher
OtherEntries ==
    BankTaskEntries \cup
    {[name |-> <<"i", "n", "v", "o", "i", "c", "e", ".", "m", "d">>,
      kind |-> "file"],
     [name |-> <<"n", "o", "t", "e", "s", ".", "t", "x", "t">>,
      kind |-> "file"],
     [name |-> <<"a", "r", "c", "h", "i", "v", "e", ".", "m", "d">>,
      kind |-> "dir"],
     [name |-> <<"T", "a", "s", "k", "_", "G", "e", "n", "e", "r", "a", "t",
                 "e", "_", "P", "l", "a", "n", "_", "m", "a", "n", "u", "a",
                 "l", ".", "m", "d">>,
      kind |-> "file"]}

\* count_pending_tasks: regular files whose name ends in .md; 0 when the
\* folder is not there or cannot be listed
count_pending_tasks(folder) ==
    IF folder.st = "missing" THEN 0
    ELSE IF folder.st = "denied" THEN 0
    ELSE Cardinality({e \in folder.entries :
                        /\ EndsWith(e.name, <<".", "m", "d">>)
                        /\ e.kind = "file"})

\* mutant: item.lower() == PLAN_TASK_PREFIX
plan_task_exists_WholeName(folder) ==
    IF folder.st = "missing" THEN FALSE
    ELSE IF folder.st = "denied" THEN FALSE
    ELSE \E e \in folder.entries : Lower(e.name) = PLAN_TASK_PREFIX

\* plan_task_exists: some entry whose lower-cased name starts with the
\* prefix; False when the folder is not there or the listing raises
plan_task_exists(folder) ==
    IF folder.st = "missing" THEN FALSE
    ELSE IF folder.st = "denied" THEN FALSE
    ELSE \E e \in folder.entries : StartsWith(Lower(e.name), PLAN_TASK_PREFIX)

\* create_plan_task: the path written (empty for None) and the folder
\* afterwards; can_write stands for open(task_path, "w") succeeding
create_plan_task(folder, minute, can_write) ==
    LET task_filename == plan_task_filename(minute)
        ensured == IF folder.st = "missing"
                   THEN [st |-> "ok", entries |-> {}]
                   ELSE folder
    IN  IF \/ ~can_write
           \/ [name |-> task_filename, kind |-> "dir"] \in ensured.entries
        THEN [task_path |-> << >>, folder |-> folder]
        ELSE [task_path |-> task_filename,
              folder |-> [ensured EXCEPT !.entries =
                            @ \cup {[name |-> task_filename, kind |-> "file"]}]]

\* initialize_scheduler has run: Needs_Action/ is there, with whatever other
\* parties left in it
SchedulerInit ==
    /\ RalphNotRunning
    /\ BankNotRunning
    /\ ContextNotCalled
    /\ \E present \in SUBSET OtherEntries :
          needs_action_folder = [st |-> "ok", entries |-> present]
    /\ sched_clock = 0
    /\ sched_report = "none"

\* scheduled_check, at startup and at every interval
scheduled_check ==
    /\ LET pending_count == count_pending_tasks(needs_action_folder)
       IN  IF pending_count = 0
           THEN /\ sched_report' = "no_pending"
                /\ needs_action_folder' = needs_action_folder
           ELSE IF plan_task_exists(needs_action_folder)
           THEN /\ sched_report' = "plan_pending"
                /\ needs_action_folder' = needs_action_folder
           ELSE \E can_write \in BOOLEAN :
                   LET made == create_plan_task(needs_action_folder,
                                                sched_clock, can_write)
                   IN  /\ needs_action_folder' = made.folder
                       /\ sched_report' = (IF made.task_path # << >>
                                           THEN "created" ELSE "failed")
    /\ UNCHANGED <<sched_clock, ralph_vars, bank_vars, context_vars>>

\* another party puts an entry into Needs_Action/
TaskArrives ==
    /\ needs_action_folder.st # "missing"
    /\ \E e \in OtherEntries \ needs_action_folder.entries :
          needs_action_folder' =
              [needs_action_folder EXCEPT !.entries = @ \cup {e}]
    /\ UNCHANGED <<sched_clock, sched_report, ralph_vars, bank_vars,
                   context_vars>>

\* another party takes an entry away (a task done, the plan task included)
TaskRemoved ==
    /\ needs_action_folder.st # "missing"
    /\ \E e \in needs_action_folder.entries :
          needs_action_folder' =
              [needs_action_folder EXCEPT !.entries = @ \ {e}]
    /\ UNCHANGED <<sched_clock, sched_report, ralph_vars, bank_vars,
                   context_vars>>

\* the folder is deleted, made again, or its listing is denied or allowed
FolderChanges ==
    /\ \E st \in {"ok", "denied", "missing"} \ {needs_action_folder.st} :
          needs_action_folder' =
              IF st = "missing" THEN NoFolder
              ELSE [needs_action_folder EXCEPT !.st = st]
    /\ UNCHANGED <<sched_clock, sched_report, ralph_vars, bank_vars,
                   context_vars>>

\* a minute passes
ClockTick ==
    /\ sched_clock < MaxMinutes
    /\ sched_clock' = sched_clock + 1
    /\ UNCHANGED <<needs_action_folder, sched_report, ralph_vars, bank_vars,
                   context_vars>>

\* "task_bank_audit"
BANK_AUDIT_PREFIX ==
    <<"t", "a", "s", "k", "_", "b", "a", "n", "k", "_", "a", "u", "d", "i",
      "t">>

\* create_bank_audit_task: task_filename
audit_task_filename(minute) ==
    BANK_AUDIT_PREFIX \o <<"_">> \o date_stamp(minute) \o <<".", "m", "d">>

\* bank_audit_task_exists: some entry whose lower-cased name starts with the
\* audit prefix; False when the folder is not there or the listing raises
bank_audit_task_exists(folder) ==
    IF folder.st = "missing" THEN FALSE
    ELSE IF folder.st = "denied" THEN FALSE
    ELSE \E e \in folder.entries : StartsWith(Lower(e.name), BANK_AUDIT_PREFIX)

\* mutant: every .md entry counts
count_unreviewed_bank_tasks_AnyMd(folder) ==
    IF folder.st = "missing" THEN 0
    ELSE IF folder.st = "denied" THEN 0
    ELSE Cardinality({e \in folder.entries :
                        EndsWith(e.name, <<".", "m", "d">>)})

\* count_unreviewed_bank_tasks: entries named task_bank_*.md; 0 when the
\* folder is not there or the listing raises
count_unreviewed_bank_tasks(folder) ==
    IF folder.st = "missing" THEN 0
    ELSE IF folder.st = "denied" THEN 0
    ELSE Cardinality({e \in folder.entries :
                        /\ StartsWith(e.name, <<"t", "a", "s", "k", "_", "b",
                                                "a", "n", "k", "_">>)
                        /\ EndsWith(e.name, <<".", "m", "d">>)})

\* create_bank_audit_task: the path written (empty for None) and the folder
\* afterwards; can_write stands for open(task_path, "w") succeeding
create_bank_audit_task(folder, minute, can_write) ==
    LET task_filename == audit_task_filename(minute)
        ensured == IF folder.st = "missing"
                   THEN [st |-> "ok", entries |-> {}]
                   ELSE folder
    IN  IF \/ ~can_write
           \/ [name |-> task_filename, kind |-> "dir"] \in ensured.entries
        THEN [task_path |-> << >>, folder |-> folder]
        ELSE [task_path |-> task_filename,
              folder |-> [ensured EXCEPT !.entries =
                            @ \cup {[name |-> task_filename, kind |-> "file"]}]]

\* scheduled_bank_audit, at startup and every 24 hours
scheduled_bank_audit ==
    /\ LET unreviewed == count_unreviewed_bank_tasks(needs_action_folder)
       IN  IF unreviewed = 0
           THEN /\ sched_report' = "audit_nothing"
                /\ needs_action_folder' = needs_action_folder
           ELSE IF bank_audit_task_exists(needs_action_folder)
           THEN /\ sched_report' = "audit_pending"
                /\ needs_action_folder' = needs_action_folder
           ELSE \E can_write \in BOOLEAN :
                   LET made == create_bank_audit_task(needs_action_folder,
                                                      sched_clock, can_write)
                   IN  /\ needs_action_folder' = made.folder
                       /\ sched_report' = (IF made.task_path # << >>
                                           THEN "audit_created"
                                           ELSE "audit_failed")
    /\ UNCHANGED <<sched_clock, ralph_vars, bank_vars, context_vars>>

SchedulerNext ==
    \/ scheduled_check
    \/ scheduled_bank_audit
    \/ TaskArrives
    \/ TaskRemoved
    \/ FolderChanges
    \/ ClockTick

SchedulerSpec == SchedulerInit /\ [][SchedulerNext]_vars

\* the plan tasks of the scheduler that Needs_Action/ holds
SchedulerPlans ==
    {e \in needs_action_folder.entries :
        \E m \in 0..MaxMinutes : e.name = plan_task_filename(m)}

\* the regular .md files of the folder, and the entries with the plan prefix
PendingMdFiles(folder) ==
    {e \in folder.entries :
        EndsWith(e.name, <<".", "m", "d">>) /\ e.kind = "file"}
PlanPrefixEntries(folder) ==
    {e \in folder.entries : StartsWith(Lower(e.name), PLAN_TASK_PREFIX)}

(***************************************************************************)
(* C22: whatever scheduled_check runs, arrivals and removals of entries    *)
(* and changes of the folder happen, Needs_Action/ never holds more than   *)
(* one plan task written by the scheduler; and a step that adds a plan     *)
(* task finds the folder listable, with at least one regular .md file in   *)
(* it and no entry whose name starts with the plan prefix.                 *)
(***************************************************************************)
C22_OnePlanTask ==
    /\ [](Cardinality(SchedulerPlans) <= 1)
    /\ [][SchedulerPlans' \ SchedulerPlans # {} =>
            /\ needs_action_folder.st = "ok"
            /\ PendingMdFiles(needs_action_folder) # {}
            /\ PlanPrefixEntries(needs_action_folder) = {}
            /\ sched_report' = "created"]_vars

\* a later check met the plan task of an earlier minute and wrote none
C22_Witness ==
    /\ sched_report = "plan_pending"
    /\ sched_clock = 2
    /\ SchedulerPlans = {[name |-> plan_task_filename(0), kind |-> "file"]}
    /\ Cardinality(PendingMdFiles(needs_action_folder)) >= 2

\* the audit tasks of the scheduler that Needs_Action/ holds, and the tasks
\* of the bank watcher in a folder
AuditTasks ==
    {e \in needs_action_folder.entries :
        \E m \in 0..MaxMinutes : e.name = audit_task_filename(m)}
BankTransactionTasks(folder) == folder.entries \cap BankTaskEntries

(***************************************************************************)
(* C31: whatever runs of scheduled_bank_audit and scheduled_check,         *)
(* arrivals and removals of entries happen, Needs_Action/ never holds more *)
(* than one audit task of the scheduler; and a step that adds an audit     *)
(* task finds at least one task of the bank watcher in the folder and no   *)
(* audit task.                                                             *)
(***************************************************************************)
C31_OneAuditTask ==
    /\ [](Cardinality(AuditTasks) <= 1)
    /\ [][AuditTasks' \ AuditTasks # {} =>
            /\ needs_action_folder.st = "ok"
            /\ BankTransactionTasks(needs_action_folder) # {}
            /\ AuditTasks = {}
            /\ sched_report' = "audit_created"]_vars

\* a later audit check met the audit task of an earlier minute, the bank
\* task still there, and wrote none
C31_Witness ==
    /\ sched_report = "audit_pending"
    /\ sched_clock = 2
    /\ AuditTasks = {[name |-> audit_task_filename(0), kind |-> "file"]}
    /\ BankTransactionTasks(needs_action_folder) # {}

(***************************************************************************)
(* bank_watcher.py: one task per CSV dropped into Bank_Drops/.             *)
(***************************************************************************)

\* how often the watcher process is started, and how many checks one
\* process runs
MaxStarts == 2
MaxChecks == 2

\* str.replace
RECURSIVE Replace(_, _, _)
Replace(s, old, new) ==
    IF Len(s) < Len(old) \/ Len(s) = 0 THEN s
    ELSE IF StartsWith(s, old)
    THEN new \o Replace(SubSeq(s, Len(old) + 1, Len(s)), old, new)
    ELSE <<s[1]>> \o Replace(Tail(s), old, new)

\* str(counter)
RECURSIVE Str(_)
Str(n) ==
    IF n < 10 THEN <<DigitChar[n + 1]>>
    ELSE Str(n \div 10) \o <<DigitChar[(n % 10) + 1]>>

\* demo_filename of generate_demo_csv, on the day of the run
DemoCsvName ==
    <<"d", "e", "m", "o", "_", "b", "a", "n", "k", "_", "s", "t", "a", "t",
      "e", "m", "e", "n", "t", "_", "2", "0", "2", "6", "-", "0", "1", "-",
      "0", "1", ".", "c", "s", "v">>

\* what lands in Bank_Drops/: "q 1.csv" and "q_1.csv" with transactions,
\* "Feb.CSV" with a header only, "notes.txt"
DroppedEntries ==
    {[name |-> <<"q", " ", "1", ".", "c", "s", "v">>, kind |-> "file", rows |-> "valid"],
     [name |-> <<"q", "_", "1", ".", "c", "s", "v">>, kind |-> "file", rows |-> "valid"],
     [name |-> <<"F", "e", "b", ".", "C", "S", "V">>, kind |-> "file", rows |-> "none"],
     [name |-> <<"n", "o", "t", "e", "s", ".", "t", "x", "t">>,
      kind |-> "file", rows |-> "valid"]}

DemoCsv == [name |-> DemoCsvName, kind |-> "file", rows |-> "valid"]

\* the names in the order of sorted()
SortedNames ==
    <<<<"F", "e", "b", ".", "C", "S", "V">>,
      DemoCsvName,
      <<"n", "o", "t", "e", "s", ".", "t", "x", "t">>,
      <<"q", " ", "1", ".", "c", "s", "v">>,
      <<"q", "_", "1", ".", "c", "s", "v">>>>

\* item.lower().endswith(".csv"), for each name
CsvSuffixTable ==
    {<<SortedNames[i], EndsWith(Lower(SortedNames[i]), <<".", "c", "s", "v">>)>> :
        i \in DOMAIN SortedNames}

\* get_csv_files: names of the regular files ending in .csv, any case
get_csv_files(folder) ==
    IF folder.st = "missing" THEN {}
    ELSE {e.name : e \in {d \in folder.entries :
                            /\ Lookup(CsvSuffixTable, d.name)
                            /\ d.kind = "file"}}

\* parse_csv: whether the file yields transactions
parse_csv(folder, csv_filename) ==
    \E e \in folder.entries : e.name = csv_filename /\ e.rows = "valid"

\* create_transaction_task: the while loop that avoids overwriting
RECURSIVE FreeTaskName(_, _, _)
FreeTaskName(safe_name, counter, existing) ==
    LET task_filename ==
            <<"t", "a", "s", "k", "_", "b", "a", "n", "k", "_">> \o safe_name
                \o <<"_">> \o Str(counter) \o <<".", "m", "d">>
    IN  IF task_filename \in existing
        THEN FreeTaskName(safe_name, counter + 1, existing)
        ELSE task_filename

\* create_transaction_task: safe_name
safe_name_of(csv_filename) ==
    Replace(Replace(csv_filename, <<".", "c", "s", "v">>, << >>),
            <<" ">>, <<"_">>)

SafeNameTable ==
    {<<SortedNames[i], safe_name_of(SortedNames[i])>> : i \in DOMAIN SortedNames}

\* create_transaction_task: the name of the task written (empty for None);
\* can_write stands for open(task_path, "w") succeeding
create_transaction_task(csv_filename, existing, can_write) ==
    LET safe_name == Lookup(SafeNameTable, csv_filename)
        task_filename ==
            <<"t", "a", "s", "k", "_", "b", "a", "n", "k", "_">> \o safe_name
                \o <<".", "m", "d">>
    IN  IF ~can_write THEN << >>
        ELSE IF task_filename \in existing
        THEN FreeTaskName(safe_name, 1, existing)
        ELSE task_filename

\* mutant: every CSV in the folder is new
new_files_All(current_files, processed) == current_files

\* check_for_new_csvs: new_files = current_files - processed_files
new_files(current_files, processed) == current_files \ processed

\* check_for_new_csvs: the for loop over sorted(new_files); st carries
\* processed_files, the task files of Needs_Action/ and what was done
RECURSIVE ProcessCsvs(_, _, _, _)
ProcessCsvs(names, folder, can_write, st) ==
    IF names = << >> THEN st
    ELSE
      LET csv_filename == Head(names)
          again == IF \E i \in DOMAIN st.made : st.made[i].csv = csv_filename
                   THEN {csv_filename} ELSE {}
          task_path == create_transaction_task(csv_filename, st.tasks,
                                               can_write)
          after ==
            IF ~parse_csv(folder, csv_filename)
            THEN [st EXCEPT !.processed = @ \cup {csv_filename},
                            !.reparsed = @ \cup again]
            ELSE IF task_path # << >>
            THEN [st EXCEPT !.processed = @ \cup {csv_filename},
                            !.reparsed = @ \cup again,
                            !.tasks = @ \cup {task_path},
                            !.made = Append(@, [csv |-> csv_filename,
                                                task |-> task_path]),
                            !.now = @ \cup {csv_filename}]
            ELSE [st EXCEPT !.reparsed = @ \cup again]
      IN  ProcessCsvs(Tail(names), folder, can_write, after)

\* the watcher is not started; Bank_Drops/ is missing or holds what was
\* dropped before
BankInit ==
    /\ RalphNotRunning
    /\ SchedulerNotRunning
    /\ ContextNotCalled
    /\ bank_pc = "stopped"
    /\ \/ bank_drops = NoFolder
       \/ \E present \in SUBSET DroppedEntries :
             bank_drops = [st |-> "ok", entries |-> present]
    /\ processed_files = {}
    /\ demo_generated = FALSE
    /\ bank_tasks = {}
    /\ tasks_made = << >>
    /\ reparsed = {}
    /\ present_at_start = {}
    /\ checks_done = 0
    /\ made_last_check = {}
    /\ starts = 0

\* main up to the loop: a new process, then initialize_watcher
initialize_watcher ==
    /\ bank_pc = "stopped"
    /\ starts < MaxStarts
    /\ LET ensured == IF bank_drops.st = "missing"
                      THEN [st |-> "ok", entries |-> {}]
                      ELSE bank_drops
           existing == get_csv_files(ensured)
       IN  /\ present_at_start' = existing
           /\ IF existing = {}
              THEN /\ demo_generated' = TRUE
                   /\ \E can_write \in BOOLEAN :
                        bank_drops' =
                          IF /\ can_write
                             /\ \A e \in ensured.entries : e.name # DemoCsvName
                          THEN [ensured EXCEPT !.entries = @ \cup {DemoCsv}]
                          ELSE ensured
              ELSE /\ demo_generated' = FALSE
                   /\ bank_drops' = ensured
    /\ processed_files' = {}
    /\ bank_pc' = "running"
    /\ starts' = starts + 1
    /\ tasks_made' = << >>
    /\ reparsed' = {}
    /\ checks_done' = 0
    /\ made_last_check' = {}
    /\ UNCHANGED <<bank_tasks, ralph_vars, scheduler_vars, context_vars>>

\* check_for_new_csvs, one pass of the loop of main
check_for_new_csvs ==
    /\ bank_pc = "running"
    /\ checks_done < MaxChecks
    /\ LET current_files == get_csv_files(bank_drops)
           todo == new_files(current_files, processed_files)
       IN  \E can_write \in BOOLEAN :
             LET done == ProcessCsvs(SelectSeq(SortedNames,
                                               LAMBDA n : n \in todo),
                                     bank_drops, can_write,
                                     [processed |-> processed_files,
                                      tasks |-> bank_tasks,
                                      made |-> tasks_made,
                                      reparsed |-> reparsed,
                                      now |-> {}])
             IN  /\ processed_files' = done.processed
                 /\ bank_tasks' = done.tasks
                 /\ tasks_made' = done.made
                 /\ reparsed' = done.reparsed
                 /\ made_last_check' = done.now
    /\ checks_done' = checks_done + 1
    /\ UNCHANGED <<bank_pc, bank_drops, demo_generated, present_at_start,
                   starts, ralph_vars, scheduler_vars, context_vars>>

\* a file or directory is dropped into Bank_Drops/
CsvArrives ==
    /\ bank_drops.st = "ok"
    /\ \E e \in DroppedEntries :
          /\ \A d \in bank_drops.entries : d.name # e.name
          /\ bank_drops' = [bank_drops EXCEPT !.entries = @ \cup {e}]
    /\ UNCHANGED <<bank_pc, processed_files, demo_generated, bank_tasks,
                   tasks_made, reparsed, present_at_start, checks_done,
                   made_last_check, starts, ralph_vars, scheduler_vars,
                   context_vars>>

\* an entry of Bank_Drops/ is taken away
CsvRemoved ==
    /\ bank_drops.st = "ok"
    /\ \E e \in bank_drops.entries :
          bank_drops' = [bank_drops EXCEPT !.entries = @ \ {e}]
    /\ UNCHANGED <<bank_pc, processed_files, demo_generated, bank_tasks,
                   tasks_made, reparsed, present_at_start, checks_done,
                   made_last_check, starts, ralph_vars, scheduler_vars,
                   context_vars>>

\* Ctrl+C: the process ends, and what it held in memory with it
BankStopped ==
    /\ bank_pc = "running"
    /\ bank_pc' = "stopped"
    /\ processed_files' = {}
    /\ demo_generated' = FALSE
    /\ tasks_made' = << >>
    /\ reparsed' = {}
    /\ present_at_start' = {}
    /\ checks_done' = 0
    /\ made_last_check' = {}
    /\ UNCHANGED <<bank_drops, bank_tasks, starts, ralph_vars, scheduler_vars,
                   context_vars>>

BankNext ==
    \/ initialize_watcher
    \/ check_for_new_csvs
    \/ CsvArrives
    \/ CsvRemoved
    \/ BankStopped

BankSpec == BankInit /\ [][BankNext]_vars

(***************************************************************************)
(* C23: within one watcher process, whatever checks run and whatever is    *)
(* dropped into or taken out of Bank_Drops/, no CSV name gets more than    *)
(* one task, and no CSV is parsed after a task was made for it.            *)
(***************************************************************************)
C23_OneTaskPerCsv ==
    /\ \A i, j \in DOMAIN tasks_made :
          tasks_made[i].csv = tasks_made[j].csv => i = j
    /\ \A i, j \in DOMAIN tasks_made :
          tasks_made[i].task = tasks_made[j].task => i = j
    /\ reparsed = {}

\* both CSVs got their task in the first check, are still there, and the
\* second check made nothing
C23_Witness ==
    /\ bank_pc = "running"
    /\ checks_done = 2
    /\ made_last_check = {}
    /\ Len(tasks_made) = 2
    /\ {tasks_made[1].csv, tasks_made[2].csv} \subseteq get_csv_files(bank_drops)
    /\ Cardinality(bank_tasks) = 2

(***************************************************************************)
(* C24: a CSV that was in Bank_Drops/ when the watcher started gets no     *)
(* task in the first check after the start.                                *)
(***************************************************************************)
C24_PresentAtStartSkipped ==
    (bank_pc = "running" /\ checks_done = 1) =>
        made_last_check \cap present_at_start = {}

(***************************************************************************)
(* parse_summary_and_remaining and build_prompt on outputs of any length.  *)
(***************************************************************************)

\* how many lines more than are kept a bucket of an output may have
MaxOver == 1

\* the lines <c>1 .. <c>n
NumberedLines(c, n) == [k \in 1..n |-> <<c>> \o Str(k)]

\* "Remaining:", "Still need to fix X", "2 files LEFT TO DO"
HeaderLine == <<"R", "e", "m", "a", "i", "n", "i", "n", "g", ":">>
ContentLine ==
    <<"S", "t", "i", "l", "l", " ", "n", "e", "e", "d", " ", "t", "o", " ",
      "f", "i", "x", " ", "X">>
LaterLine ==
    <<"2", " ", "f", "i", "l", "e", "s", " ", "L", "E", "F", "T", " ", "T",
      "O", " ", "D", "O">>

\* an output of the worker: s lines of what was done, then, by kind, no
\* indicator line, a header, a line that says what is left, or a header
\* and a second indicator line after the first line of the rest; r lines of
\* what is left; a final newline
WorkerText(s, kind, r) ==
    LET done == NumberedLines("a", s)
        rest == NumberedLines("b", r)
        tail == CASE kind = "none" -> rest
                  [] kind = "header" -> <<HeaderLine>> \o rest
                  [] kind = "content" -> <<ContentLine>> \o rest
                  [] kind = "twice" ->
                        <<HeaderLine>> \o FirstN(rest, 1) \o <<LaterLine>>
                            \o SubSeq(rest, 2, Len(rest))
    IN  JoinLines(done \o tail) \o <<"\n">>

SummaryCounts == {0, 1, 2} \cup ((SUMMARY_KEEP - 1)..(SUMMARY_KEEP + MaxOver))
RemainingCounts ==
    {0, 1} \cup ((REMAINING_KEEP - 1)..(REMAINING_KEEP + MaxOver))
IndicatorKinds == {"none", "header", "content", "twice"}

ContextTexts ==
    {WorkerText(s, kind, r) :
        s \in SummaryCounts, kind \in IndicatorKinds, r \in RemainingCounts}

ParseTable == {<<o, parse_summary_and_remaining(o)>> : o \in ContextTexts}

\* ralph_loop before the first parse: both context texts empty, an output
\* of the worker at hand
ContextInit ==
    /\ RalphNotRunning
    /\ SchedulerNotRunning
    /\ BankNotRunning
    /\ worker_text \in ContextTexts
    /\ parse_result = [summary |-> << >>, remaining |-> << >>]
    /\ next_prompt = NoPrompt
    /\ context_pc = "output"

\* line 248
ParseOutput ==
    /\ context_pc = "output"
    /\ parse_result' = Lookup(ParseTable, worker_text)
    /\ context_pc' = "parsed"
    /\ UNCHANGED <<worker_text, next_prompt, ralph_vars, scheduler_vars,
                   bank_vars>>

\* line 209, in the iteration after
PromptBuilt ==
    /\ context_pc = "parsed"
    /\ \E i \in 2..MaxBudget :
          next_prompt' = build_prompt(PlainTask, i, MaxBudget,
                                      parse_result.summary,
                                      parse_result.remaining)
    /\ context_pc' = "prompted"
    /\ UNCHANGED <<worker_text, parse_result, ralph_vars, scheduler_vars,
                   bank_vars>>

\* line 210: the worker answers that prompt
OutputReturned ==
    /\ context_pc = "prompted"
    /\ worker_text' \in ContextTexts
    /\ context_pc' = "output"
    /\ UNCHANGED <<parse_result, next_prompt, ralph_vars, scheduler_vars,
                   bank_vars>>

ContextNext ==
    \/ ParseOutput
    \/ PromptBuilt
    \/ OutputReturned

ContextSpec == ContextInit /\ [][ContextNext]_vars

\* the lines of the output, the place of the first indicator line, and the
\* two buckets: what stands before it, and what stands after it and is no
\* indicator line itself
BucketsOf(out) ==
    LET lines == SplitLines(Strip(out))
        at == {i \in DOMAIN lines : is_remaining_indicator(lines[i])}
        first == IF at = {} THEN Len(lines) + 1
                 ELSE CHOOSE i \in at : \A j \in at : i <= j
    IN  [lines |-> lines,
         first |-> first,
         summary |-> SubSeq(lines, 1, first - 1),
         remaining |-> SelectSeq(SubSeq(lines, first + 1, Len(lines)),
                                 LAMBDA l : ~is_remaining_indicator(l)),
         stripped |-> Strip(out)]
BucketTable == {<<o, BucketsOf(o)>> : o \in ContextTexts}
OutputLines == Lookup(BucketTable, worker_text).lines
FirstIndicator == Lookup(BucketTable, worker_text).first
SummaryBucket == Lookup(BucketTable, worker_text).summary
RemainingBucket == Lookup(BucketTable, worker_text).remaining

\* the lines of a context text
LinesOf(text) == {SplitLines(text)[i] : i \in DOMAIN SplitLines(text)}

(***************************************************************************)
(* C27: the lines before the first indicator line are the summary, the     *)
(* lines from there on the remaining text; when neither side is longer     *)
(* than what is kept, every line of the output is a line of the summary or *)
(* of the remaining text; with no indicator line the remaining text is     *)
(* empty and the summary is the whole output.                              *)
(***************************************************************************)
C27_EveryLineInABucket ==
    context_pc = "parsed" =>
        /\ parse_result.summary = JoinLines(LastN(SummaryBucket, SUMMARY_KEEP))
        /\ (/\ Len(SummaryBucket) <= SUMMARY_KEEP
            /\ Len(OutputLines) - Len(SummaryBucket) <= REMAINING_KEEP) =>
              \A i \in DOMAIN OutputLines :
                  OutputLines[i] \in LinesOf(parse_result.summary)
                                       \cup LinesOf(parse_result.remaining)
        /\ FirstIndicator > Len(OutputLines) =>
              /\ parse_result.remaining = << >>
              /\ (Len(OutputLines) <= SUMMARY_KEEP =>
                    parse_result.summary =
                        Lookup(BucketTable, worker_text).stripped)

\* the section of the prompt under a heading, as lines
SectionLines(heading) ==
    LET at == {i \in DOMAIN next_prompt.sections :
                 next_prompt.sections[i].heading = heading}
    IN  IF at = {} THEN << >>
        ELSE SplitLines(next_prompt.sections[CHOOSE i \in at : TRUE].body)

(***************************************************************************)
(* C28: in a prompt the summary section has at most 30 lines and the       *)
(* remaining-work section at most 15, each the last lines of its bucket of *)
(* the output before, whatever the length of the output.                   *)
(***************************************************************************)
C28_ContextBounded ==
    context_pc = "prompted" =>
        /\ Len(SectionLines("Previous Iteration Summary")) <= SUMMARY_KEEP
        /\ Len(SectionLines("Known Remaining Work")) <= REMAINING_KEEP
        /\ SectionLines("Previous Iteration Summary") =
              LastN(SummaryBucket, SUMMARY_KEEP)
        /\ SectionLines("Known Remaining Work") =
              LastN(RemainingBucket, REMAINING_KEEP)
        /\ Len(next_prompt.sections) <= 2

\* an output with 31 lines before the header and 16 after it: 30 and 15 of
\* them in the prompt
C28_Witness ==
    /\ context_pc = "prompted"
    /\ Len(SummaryBucket) = SUMMARY_KEEP + 1
    /\ Len(RemainingBucket) = REMAINING_KEEP + 1
    /\ Len(SectionLines("Previous Iteration Summary")) = SUMMARY_KEEP
    /\ Len(SectionLines("Known Remaining Work")) = REMAINING_KEEP

====
